---- MODULE Spec2Model ----
(***************************************************************************)
(* Model of the svg-playground audio engine (js/audio.ts, js/state.ts,     *)
(* js/utils.ts, js/circles.ts) and of the handlers of js/app.ts that       *)
(* drive it.                                                               *)
(*                                                                         *)
(* Time.  One clock `now` stands for audioCtx.currentTime,                 *)
(* performance.now() and the timer clock; its unit is 1 ms, so 0.1 s is    *)
(* 100.  Times are exact rationals, not IEEE doubles: a time inside a      *)
(* rotation is kept as a numerator over the pattern's total length.        *)
(***************************************************************************)
EXTENDS Integers, Sequences, FiniteSets, TLC

VARIABLES
  now,          \* the clock (audioCtx.currentTime, performance.now(), timers), ms
  stateMap,     \* js/state.ts stateMap: circle -> CircleState
  dom,          \* per circle: is it a child of the svg, its stroke-dasharray
  timers,       \* pending window.setTimeout callbacks
  nextTimer,    \* the next timer id window.setTimeout returns
  bundles,      \* every LiveAudioNodes bundle created so far
  rotations,    \* per circle: the calls of scheduleOneRotation so far
  loops,        \* the closures of loopCircleAudio created so far
  notes,        \* every note passed to playRichTone so far
  notified,     \* per circle: svg-playground:note events dispatched so far
  app,          \* the locals of init() in js/app.ts
  nextCircle,   \* circles created so far
  advances,     \* times the clock has advanced
  inputs,       \* input events delivered so far
  lastOp,       \* the handler or callback that ran last, and the circle it ran for
  masterNodesMap, \* js/audio.ts masterNodesMap, for the one audio context
  faults,       \* how the audio context answers the n-th playRichTone call
  hung,         \* a callback is running that never returns
  stops,        \* the calls of stopAndClearActiveOscillators that stopped notes
  probe         \* the last direct call of a function of js/utils.ts

vars == <<now, stateMap, dom, timers, nextTimer, bundles, loops, rotations,
          notes, notified, app, nextCircle, advances, inputs, lastOp,
          masterNodesMap, faults, hung, stops, probe>>

(***************************************************************************)
(* 32-bit words.  TLC integers are 32-bit signed, so an unsigned 32-bit    *)
(* word is kept as <<hi, lo>> with two 16-bit halves.                      *)
(***************************************************************************)
W16 == 65536

RECURSIVE Pow2(_)
Pow2(n) == IF n = 0 THEN 1 ELSE 2 * Pow2(n - 1)

RECURSIVE BitXor(_, _, _)
BitXor(a, b, n) ==
  IF n = 0 THEN 0
  ELSE ((a + b) % 2) + 2 * BitXor(a \div 2, b \div 2, n - 1)

RECURSIVE BitOr(_, _, _)
BitOr(a, b, n) ==
  IF n = 0 THEN 0
  ELSE (IF a % 2 = 1 \/ b % 2 = 1 THEN 1 ELSE 0)
       + 2 * BitOr(a \div 2, b \div 2, n - 1)

\* 4-bit tables, evaluated once
XorNib == [a \in 0..15 |-> [b \in 0..15 |-> BitXor(a, b, 4)]]
OrNib == [a \in 0..15 |-> [b \in 0..15 |-> BitOr(a, b, 4)]]

Nib(a, i) == (a \div Pow2(4 * i)) % 16

Xor16(a, b) ==
  XorNib[Nib(a, 0)][Nib(b, 0)] + 16 * XorNib[Nib(a, 1)][Nib(b, 1)]
  + 256 * XorNib[Nib(a, 2)][Nib(b, 2)] + 4096 * XorNib[Nib(a, 3)][Nib(b, 3)]

Or16(a, b) ==
  OrNib[Nib(a, 0)][Nib(b, 0)] + 16 * OrNib[Nib(a, 1)][Nib(b, 1)]
  + 256 * OrNib[Nib(a, 2)][Nib(b, 2)] + 4096 * OrNib[Nib(a, 3)][Nib(b, 3)]

\* a ^ b, a | b, a + b (mod 2^32), a >>> n for 0 < n < 16
Xor32(a, b) == <<Xor16(a[1], b[1]), Xor16(a[2], b[2])>>
Or32(a, b) == <<Or16(a[1], b[1]), Or16(a[2], b[2])>>
Add32(a, b) ==
  LET lo == a[2] + b[2]
      hi == a[1] + b[1] + (lo \div W16)
  IN <<hi % W16, lo % W16>>
Shr32(a, n) ==
  <<a[1] \div Pow2(n),
    (a[2] \div Pow2(n)) + (a[1] % Pow2(n)) * Pow2(16 - n)>>

\* Math.imul(a, b): the low 32 bits of the product, by 8-bit limbs
Imul(a, b) ==
  LET a0 == a[2] % 256  a1 == a[2] \div 256
      a2 == a[1] % 256  a3 == a[1] \div 256
      b0 == b[2] % 256  b1 == b[2] \div 256
      b2 == b[1] % 256  b3 == b[1] \div 256
      c0 == a0 * b0
      c1 == a0 * b1 + a1 * b0 + (c0 \div 256)
      c2 == a0 * b2 + a1 * b1 + a2 * b0 + (c1 \div 256)
      c3 == a0 * b3 + a1 * b2 + a2 * b1 + a3 * b0 + (c2 \div 256)
  IN <<(c3 % 256) * 256 + (c2 % 256), (c1 % 256) * 256 + (c0 % 256)>>

\* an integer 0 <= n < 2^31 as a word
Word(n) == <<n \div W16, n % W16>>

\* 0x6d2b79f5
MulberryStep == <<27947, 31221>>

(***************************************************************************)
(* mulberry32: the closure's only state is `seed`; one call advances it by *)
(* 0x6d2b79f5 and returns a hash of the new value (numerator over 2^32).   *)
(***************************************************************************)
MulberryNext(seed) == Add32(seed, MulberryStep)
\* t = Math.imul(t ^ (t >>> 15), t | 1)
MulberryMix1(t) == Imul(Xor32(t, Shr32(t, 15)), Or32(t, Word(1)))
\* t ^= t + Math.imul(t ^ (t >>> 7), t | 61)
MulberryMix2(t) ==
  Xor32(t, Add32(t, Imul(Xor32(t, Shr32(t, 7)), Or32(t, Word(61)))))
\* (t ^ (t >>> 14)) >>> 0
MulberryMix3(t) == Xor32(t, Shr32(t, 14))
MulberryOut(seed) == MulberryMix3(MulberryMix2(MulberryMix1(seed)))

(***************************************************************************)
(* Bounds of the model                                                     *)
(***************************************************************************)
MaxCircles == 2      \* circles createCircleAt may create
MaxSegments == 3     \* key toggles recorded for one circle
MaxInputs == 5       \* input events delivered in one run
MaxAdvances == 2     \* times the clock advances in one run

Circles == 1..MaxCircles
NoCircle == 0

(***************************************************************************)
(* js/constants.ts and the literal delays of js/audio.ts, in ms             *)
(***************************************************************************)
LIVE_AUDIO_FADE == 50         \* LIVE_AUDIO_FADE_SEC = 0.05
LOOP_SCHEDULE_AHEAD == 100    \* LOOP_SCHEDULE_AHEAD_SEC = 0.1
SCHEDULER_INTERVAL == 50      \* SCHEDULER_INTERVAL_MS = 50
NOTE_RELEASE == 60            \* NOTE_RELEASE_SEC = 0.06
NOTE_STOP_SLACK == 80         \* NOTE_STOP_SLACK_SEC = 0.08
MIN_NOTE_DURATION == 40       \* MIN_NOTE_DURATION_SEC = 0.04
START_OFFSET == 20            \* the 0.02 s offset of a first or restarted rotation
BEHIND_MARGIN == 10           \* the 0.01 s margin of schedulerTick's restart test
DEFAULT_HOLD == 1000          \* getHoldDuration(circle) ?? 1000
EXIT_DURATION == 700          \* emotionalExit's default durationMs
CIRCUMFERENCE_X100 == 37699   \* CIRCLE_CIRCUMFERENCE = 2 * PI * 60 = 376.99..
INNER_WIDTH == 1000           \* window.innerWidth, in svg units
MILLI == 1000                 \* positions are kept in 1/1000 svg unit
INNER_HEIGHT == 1000          \* window.innerHeight, in svg units
PAN_LIMIT == 850              \* PAN_LIMIT = 0.85, in 1/1000

Max(a, b) == IF a >= b THEN a ELSE b
Min(a, b) == IF a <= b THEN a ELSE b

\* Math.round(n / d) for d > 0: halves round up
RoundDiv(n, d) == (2 * n + d) \div (2 * d)

SCALES ==
  [pentatonic |-> <<220, 247, 277, 330, 370>>,
   major |-> <<220, 247, 277, 294, 330, 370, 415, 440>>,
   minor |-> <<220, 233, 277, 294, 330, 349, 415, 440>>]

(***************************************************************************)
(* js/utils.ts                                                             *)
(***************************************************************************)
RECURSIVE SumSeq(_)
SumSeq(s) == IF s = <<>> THEN 0 ELSE Head(s) + SumSeq(Tail(s))

(***************************************************************************)
(* Strings.  A string is the sequence of its characters; a length read     *)
(* back from a string is kept in hundredths of an svg unit, so that a      *)
(* number with two decimals is read exactly.                               *)
(***************************************************************************)
DigitChars == <<"0", "1", "2", "3", "4", "5", "6", "7", "8", "9">>

\* String(n) for an integer n >= 0, as Array.prototype.join and a template
\* literal write it
RECURSIVE NumberToString(_)
NumberToString(n) ==
  IF n < 10 THEN <<DigitChars[n + 1]>>
  ELSE Append(NumberToString(n \div 10), DigitChars[(n % 10) + 1])

\* `${CIRCLE_CIRCUMFERENCE}`, cut after two decimals
CircumferenceString ==
  NumberToString(CIRCUMFERENCE_X100 \div 100) \o <<".">>
  \o NumberToString((CIRCUMFERENCE_X100 \div 10) % 10)
  \o NumberToString(CIRCUMFERENCE_X100 % 10)

\* out.join(' ') written without the separators
RECURSIVE JoinRunTogether(_)
JoinRunTogether(out) ==
  IF out = <<>> THEN <<>>
  ELSE NumberToString(Head(out)) \o JoinRunTogether(Tail(out))

\* out.join(' ')
RECURSIVE Join(_)
Join(out) ==
  IF out = <<>> THEN <<>>
  ELSE IF Len(out) = 1 THEN NumberToString(out[1])
  ELSE NumberToString(Head(out)) \o <<" ">> \o Join(Tail(out))

\* str.split(/\s+/): the pieces between maximal runs of spaces; the empty
\* string has one piece, the empty string
RECURSIVE SkipSpaces(_)
SkipSpaces(str) ==
  IF str # <<>> /\ Head(str) = " " THEN SkipSpaces(Tail(str)) ELSE str

RECURSIVE SplitFrom(_, _)
SplitFrom(str, piece) ==
  IF str = <<>> THEN <<piece>>
  ELSE IF Head(str) = " "
       THEN <<piece>> \o SplitFrom(SkipSpaces(str), <<>>)
       ELSE SplitFrom(Tail(str), Append(piece, Head(str)))

Split(str) == SplitFrom(str, <<>>)

IsDigit(ch) == \E d \in 1..10 : DigitChars[d] = ch
DigitValue(ch) == (CHOOSE d \in 1..10 : DigitChars[d] = ch) - 1

RECURSIVE DigitsValue(_)
DigitsValue(ds) ==
  IF ds = <<>> THEN 0
  ELSE 10 * DigitsValue(SubSeq(ds, 1, Len(ds) - 1)) + DigitValue(ds[Len(ds)])

NaN == -1

\* Number(piece), in hundredths: '' is 0, digits with at most one point are
\* the decimal they write (decimals past the second are dropped), anything
\* else is NaN.  Signs, exponents and hexadecimal are not written by any
\* caller and count as NaN here.
NumberOf(piece) ==
  LET dots == {i \in 1..Len(piece) : piece[i] = "."}
      dot == IF dots = {} THEN Len(piece) + 1 ELSE CHOOSE i \in dots : TRUE
      whole == SubSeq(piece, 1, dot - 1)
      frac == SubSeq(piece, dot + 1, Len(piece))
      frac2 == SubSeq(frac \o <<"0", "0">>, 1, 2)
  IN IF piece = <<>> THEN 0
     ELSE IF Cardinality(dots) > 1 \/ Len(whole) + Len(frac) = 0 THEN NaN
     ELSE IF \E i \in 1..Len(piece) : piece[i] # "." /\ ~IsDigit(piece[i]) THEN NaN
     ELSE 100 * DigitsValue(whole) + DigitsValue(frac2)

\* pieces.map(Number).filter(n => !isNaN(n) && isFinite(n))
RECURSIVE NumbersOf(_)
NumbersOf(pieces) ==
  IF pieces = <<>> THEN <<>>
  ELSE (IF NumberOf(Head(pieces)) = NaN THEN <<>>
        ELSE <<NumberOf(Head(pieces))>>) \o NumbersOf(Tail(pieces))

\* dashAttr.split(/\s+/).map(Number).filter(...), in hundredths
ParseDashAttr(str) == NumbersOf(Split(str))

\* `0 ${CIRCLE_CIRCUMFERENCE}`
EmptyPattern == <<"0", " ">> \o CircumferenceString

\* Math.round(duration * scale) without the floor of 1
SegmentLengthUnclamped(duration, totalDurationMs) ==
  RoundDiv(duration * CIRCUMFERENCE_X100, 100 * totalDurationMs)

\* Math.max(1, Math.round(s.duration * scale)),
\* scale = CIRCLE_CIRCUMFERENCE / totalDurationMs
SegmentLength(duration, totalDurationMs) ==
  Max(1, RoundDiv(duration * CIRCUMFERENCE_X100, 100 * totalDurationMs))

\* a buildDashArray that writes no `0` before a pattern that starts with a gap
DashNumbersNoMarker(all, totalDurationMs) ==
  [i \in 1..Len(all) |-> SegmentLength(all[i].duration, totalDurationMs)]

\* the numbers buildDashArray writes: `out`
DashNumbers(all, totalDurationMs) ==
  LET lens == [i \in 1..Len(all) |-> SegmentLength(all[i].duration, totalDurationMs)]
  IN IF all[1].type = "gap" THEN <<0>> \o lens ELSE lens

\* segments: <<[type, duration]>>; liveType "dash", "gap" or "none" (null)
BuildDashArray(segments, liveType, liveDuration, totalDurationMs) ==
  IF totalDurationMs <= 0 THEN EmptyPattern
  ELSE
    LET all == IF liveDuration > 0 /\ liveType # "none"
               THEN Append(segments, [type |-> liveType, duration |-> liveDuration])
               ELSE segments
    IN IF Len(all) = 0 THEN EmptyPattern
       ELSE Join(DashNumbers(all, totalDurationMs))

\* loopCircleAudio's parse of the attribute: entry i (0-based) is a dash when
\* i is even.  Sequences are 1-based here, so odd positions are dashes.
SegType(i) == IF i % 2 = 1 THEN "dash" ELSE "gap"

\* analyzeSegments without its `|| 1` guards
AnalyzeSegmentsUnguarded(segments, totalX100) ==
  LET idx == 1..Len(segments)
      dashes == {i \in idx : segments[i].type = "dash"}
      gaps == idx \ dashes
      sumOf(S) == SumSeq([k \in 1..Len(segments) |->
                            IF k \in S THEN segments[k].length ELSE 0])
  IN [complexity |-> Len(segments),
      dashGapRatio |-> [num |-> Cardinality(dashes), den |-> Cardinality(gaps)],
      avgDashLength |-> [num |-> sumOf(dashes),
                         den |-> Cardinality(dashes) * totalX100],
      avgGapLength |-> [num |-> sumOf(gaps),
                        den |-> Cardinality(gaps) * totalX100]]

\* segments: <<[type, length]>>, lengths and totalX100 in hundredths.
\* Ratios are kept as numerator and denominator.
AnalyzeSegments(segments, totalX100) ==
  LET idx == 1..Len(segments)
      dashes == {i \in idx : segments[i].type = "dash"}
      gaps == idx \ dashes
      sumOf(S) == SumSeq([k \in 1..Len(segments) |->
                            IF k \in S THEN segments[k].length ELSE 0])
      \* totalLength || 1
      tot == IF totalX100 = 0 THEN 100 ELSE totalX100
  IN [complexity |-> Len(segments),
      dashGapRatio |-> [num |-> Cardinality(dashes),
                        den |-> Max(1, Cardinality(gaps))],
      avgDashLength |-> [num |-> sumOf(dashes),
                         den |-> Max(1, Cardinality(dashes)) * tot],
      avgGapLength |-> [num |-> sumOf(gaps),
                        den |-> Max(1, Cardinality(gaps)) * tot]]

\* a choice that looks at the ratio only
ChooseScaleByRatio(analysis) ==
  IF analysis.dashGapRatio.num > analysis.dashGapRatio.den THEN "major"
  ELSE "minor"

ChooseScale(analysis) ==
  IF analysis.complexity <= 4 THEN "pentatonic"
  ELSE IF analysis.dashGapRatio.num > analysis.dashGapRatio.den THEN "major"
  ELSE "minor"

(***************************************************************************)
(* The engine's world.  The functions of js/state.ts and js/audio.ts are   *)
(* written as operators from a world w to the world after the call, so     *)
(* that a handler is the composition of the calls it makes.                *)
(*   w.now, w.sm (stateMap), w.dom, w.timers, w.nextTimer, w.bundles,      *)
(*   w.loops, w.rotations, w.notes, w.notified, w.master, w.faults,        *)
(*   w.hung, w.stops                                                       *)
(***************************************************************************)
World ==
  [now |-> now, sm |-> stateMap, dom |-> dom, timers |-> timers,
   nextTimer |-> nextTimer, bundles |-> bundles, loops |-> loops,
   rotations |-> rotations, notes |-> notes, notified |-> notified,
   master |-> masterNodesMap, faults |-> faults, hung |-> hung,
   stops |-> stops]

Commit(w) ==
  /\ stateMap' = w.sm
  /\ dom' = w.dom
  /\ timers' = w.timers
  /\ nextTimer' = w.nextTimer
  /\ bundles' = w.bundles
  /\ loops' = w.loops
  /\ rotations' = w.rotations
  /\ notes' = w.notes
  /\ notified' = w.notified
  /\ masterNodesMap' = w.master
  /\ faults' = w.faults
  /\ hung' = w.hung
  /\ stops' = w.stops

(***************************************************************************)
(* js/state.ts                                                             *)
(***************************************************************************)
Null == -1          \* null / undefined for a time or a duration
NoTimer == 0        \* null for a timer id (window.setTimeout returns ids > 0)
NoNodes == 0        \* null for a LiveAudioNodes bundle (bundles are numbered from 1)

\* rng: the closure mulberry32(seed) is its current seed; seeded = FALSE is
\* ensureCircleState's default () => Math.random()
DefaultRng == [seeded |-> FALSE, seed |-> Word(0)]
SeededRng(seed) == [seeded |-> TRUE, seed |-> Word(seed)]

\* stateMap.get(circle) === undefined
NoEntry ==
  [has |-> FALSE, pos |-> [x |-> 0, y |-> 0], rng |-> DefaultRng,
   liveAudioNodes |-> NoNodes, loopTimeout |-> NoTimer,
   activeOscillators |-> <<>>, segments |-> <<>>,
   holdDuration |-> Null, scheduledUntil |-> Null]

\* ensureCircleState(circle) with no init: creates the default entry if none
EnsureCircleState(w, c) ==
  IF w.sm[c].has THEN w
  ELSE [w EXCEPT !.sm[c] = [NoEntry EXCEPT !.has = TRUE]]

\* ensureCircleState(circle, {pos, rng}): merges into an existing entry
EnsureCircleStateInit(w, c, pos, rng) ==
  IF w.sm[c].has
  THEN [w EXCEPT !.sm[c].pos = pos, !.sm[c].rng = rng]
  ELSE [w EXCEPT !.sm[c] = [NoEntry EXCEPT !.has = TRUE, !.pos = pos, !.rng = rng]]

GetPos(w, c) == w.sm[c].pos
GetRng(w, c) == w.sm[c].rng

SetSegments(w, c, segs) ==
  [EnsureCircleState(w, c) EXCEPT !.sm[c].segments = segs]

SetHoldDuration(w, c, ms) ==
  [EnsureCircleState(w, c) EXCEPT !.sm[c].holdDuration = ms]

GetHoldDuration(w, c) == w.sm[c].holdDuration

SetLiveAudioNodes(w, c, nodes) ==
  [EnsureCircleState(w, c) EXCEPT !.sm[c].liveAudioNodes = nodes]

GetLiveAudioNodes(w, c) == w.sm[c].liveAudioNodes

\* osc.stop(), osc.disconnect(), filter/gain/panner.disconnect() of one bundle
StopBundle(w, b) ==
  [w EXCEPT !.bundles[b].stopped = TRUE, !.bundles[b].stoppedAt = w.now]

StopAndClearLiveAudioNodes(w, c) ==
  LET nodes == w.sm[c].liveAudioNodes
  IN IF nodes = NoNodes THEN w
     ELSE [StopBundle(w, nodes) EXCEPT !.sm[c].liveAudioNodes = NoNodes]

AddActiveOscillator(w, c, rec) ==
  LET w1 == EnsureCircleState(w, c)
  IN [w1 EXCEPT !.sm[c].activeOscillators = Append(@, rec)]

GetActiveOscillators(w, c) == w.sm[c].activeOscillators

\* a scheduler tick of circle c is waiting in the timer queue
TickPending(w, c) == \E t \in w.timers : t.kind = "tick" /\ t.c = c

\* for (const rec of arr) { rec.osc.stop(); ... }  st.activeOscillators = [];
\* stops records the call, and whether a tick of the circle was still pending
StopAndClearActiveOscillators(w, c) ==
  IF w.sm[c].activeOscillators = <<>> THEN w
  ELSE [w EXCEPT !.sm[c].activeOscillators = <<>>,
                 !.stops = @ \cup {[c |-> c, n |-> Len(w.sm[c].activeOscillators),
                                    tick |-> TickPending(w, c)]}]

SetLoopTimeout(w, c, id) ==
  [EnsureCircleState(w, c) EXCEPT !.sm[c].loopTimeout = id]

GetLoopTimeout(w, c) == w.sm[c].loopTimeout

\* window.clearTimeout(id): a pending callback with that id never runs
ClearTimeout(w, id) ==
  [w EXCEPT !.timers = {t \in @ : t.id # id}]

\* a clearLoopTimeout that forgets the handle and leaves the timer armed
ClearLoopTimeoutHandleOnly(w, c) ==
  IF ~w.sm[c].has THEN w
  ELSE [w EXCEPT !.sm[c].loopTimeout = NoTimer]

ClearLoopTimeout(w, c) ==
  IF ~w.sm[c].has THEN w
  ELSE IF w.sm[c].loopTimeout # NoTimer
       THEN [ClearTimeout(w, w.sm[c].loopTimeout) EXCEPT !.sm[c].loopTimeout = NoTimer]
       ELSE w

\* a store that keeps one scheduledUntil for all circles
SetScheduledUntilShared(w, c, t) ==
  [w EXCEPT !.sm = [k \in Circles |->
                      IF w.sm[k].has THEN [w.sm[k] EXCEPT !.scheduledUntil = t]
                      ELSE w.sm[k]]]

SetScheduledUntil(w, c, t) ==
  [EnsureCircleState(w, c) EXCEPT !.sm[c].scheduledUntil = t]

GetScheduledUntil(w, c) == w.sm[c].scheduledUntil

\* a deleteState that stops the notes before it cancels the tick
DeleteStateStopFirst(w, c) ==
  LET w1 == StopAndClearActiveOscillators(w, c)
      w2 == StopAndClearLiveAudioNodes(w1, c)
      w3 == ClearLoopTimeout(w2, c)
  IN [w3 EXCEPT !.sm[c] = NoEntry]

DeleteState(w, c) ==
  LET w1 == ClearLoopTimeout(w, c)
      w2 == StopAndClearLiveAudioNodes(w1, c)
      w3 == StopAndClearActiveOscillators(w2, c)
  IN [w3 EXCEPT !.sm[c] = NoEntry]

(***************************************************************************)
(* Timers and the seeded generator                                         *)
(***************************************************************************)
\* window.setTimeout(callback, delay): the id it returns is w.nextTimer.
\* kind names the callback, c the circle it closes over, arg what else it
\* closes over (a loop closure, a bundle or a note, by number).
SetTimeout(w, kind, c, delay, arg) ==
  [w EXCEPT !.timers = @ \cup {[id |-> w.nextTimer, kind |-> kind, c |-> c,
                                due |-> w.now + delay, arg |-> arg]},
            !.nextTimer = @ + 1]

\* Math.random() is outside the model; no modelled flow reaches it (every
\* circle that draws has the mulberry32 closure createCircleAt gave it)
MathRandom == Word(0)

\* a generator whose values depend on which circle draws, not on its seed
RngPeekOfCircle(w, c) == MulberryOut(Word(c))

\* the value the next rng() call returns, numerator over 2^32
RngPeek(w, c) ==
  IF w.sm[c].has /\ w.sm[c].rng.seeded
  THEN MulberryOut(MulberryNext(w.sm[c].rng.seed))
  ELSE MathRandom

\* the world after that call: the closure's seed has advanced
RngStep(w, c) ==
  IF w.sm[c].has /\ w.sm[c].rng.seeded
  THEN [w EXCEPT !.sm[c].rng.seed = MulberryNext(@)]
  ELSE w

RECURSIVE RngSkip(_, _, _)
RngSkip(w, c, n) == IF n = 0 THEN w ELSE RngSkip(RngStep(w, c), c, n - 1)

\* r < 0.5, and Math.floor(r * n), for r = word / 2^32
BelowHalf(r) == r[1] < 32768
FloorTimes(r, n) == (r[1] * n + ((r[2] * n) \div W16)) \div W16

(***************************************************************************)
(* js/audio.ts: the master output of the audio context.  masterNodesMap    *)
(* holds, for the one context of the page, the chain that is registered    *)
(* for it (nodes, NoChain when none), how many chains have been built and  *)
(* wired to its destination, and which chain each caller connected to.     *)
(***************************************************************************)
NoChain == 0

\* a context for which nothing has been built
NoMasterNodes == [nodes |-> NoChain, built |-> 0, routed |-> {}]

\* an ensureMasterNodes that does not look for the chain it has built
EnsureMasterNodesAgain(m) ==
  [m EXCEPT !.built = @ + 1, !.nodes = m.built + 1]

EnsureMasterNodes(m) ==
  IF m.nodes # NoChain THEN m
  ELSE [m EXCEPT !.built = @ + 1, !.nodes = m.built + 1]

\* masterNodesMap.get(audioCtx) ?? ensureMasterNodes(audioCtx)
MasterNodesFor(m) == IF m.nodes # NoChain THEN m ELSE EnsureMasterNodes(m)

\* panner.connect(getMasterOutput(audioCtx)) in the function `by`
ConnectToMaster(m, by) ==
  [MasterNodesFor(m) EXCEPT
     !.routed = @ \cup {[by |-> by, chain |-> MasterNodesFor(m).nodes]}]

\* createAudioContext(): new Ctor(), ensureMasterNodes(ctx)
CreateAudioContext == EnsureMasterNodes(NoMasterNodes)

\* playClickTone(audioCtx, x, y): ensureMasterNodes(ctx), then the click's own
\* nodes, which touch no circle, connect to the master output
PlayClickTone(w) ==
  [w EXCEPT !.master = ConnectToMaster(EnsureMasterNodes(@), "playClickTone")]

(***************************************************************************)
(* js/audio.ts: playRichTone                                               *)
(***************************************************************************)
Harmonics(analysis) == 1 + (analysis.complexity \div 3)

\* Math.round((tailDuration + NOTE_STOP_SLACK_SEC + 0.05) * 1000)
TailCleanupMs == Max(NOTE_RELEASE, NOTE_STOP_SLACK) + NOTE_STOP_SLACK + 50

\* a playRichTone that registers its first oscillator only
AddVoicesFirstOnly(w, c, note, k) ==
  AddActiveOscillator(w, c, [note |-> note, voice |-> 1])

\* detunes.forEach: each oscillator is created, started and registered
RECURSIVE AddVoices(_, _, _, _)
AddVoices(w, c, note, k) ==
  IF k = 0 THEN w
  ELSE AddActiveOscillator(AddVoices(w, c, note, k - 1), c,
                           [note |-> note, voice |-> k])

\* How the audio context answers the n-th call of playRichTone: "ok", or the
\* place where one of its unguarded calls throws: "early" (createGain, before
\* anything is done), "mid" (gain.gain.setValueAtTime, after the detunes are
\* drawn) or "osc" (the first createOscillator, after the note event is
\* queued).
Outcomes == {"ok", "early", "mid", "osc"}
FaultAt(w, n) == IF n <= Len(w.faults) THEN w.faults[n] ELSE "ok"

\* detail.intensity = Math.min(1, Math.max(0, normalizedBaseGain * 1.6)), in
\* 1/1000, for a circle at pos with that many voices; pan and yFactor are the
\* ones loopCircleAudio passes.  Square roots are taken to three decimals;
\* the sample rate is 44100 and __FILTER_COMPENSATION_SENSITIVITY is 1.
Intensity(pos, harmonics) ==
  LET x == Max(0, Min(pos.x, INNER_WIDTH * MILLI))
      y == Max(0, Min(pos.y, INNER_HEIGHT * MILLI))
      pan == Max(-PAN_LIMIT, Min(PAN_LIMIT, (2 * x) \div INNER_WIDTH - 1000))
      yFactor == 1000 - Max(0, Min(1000, y \div INNER_HEIGHT))
      baseGainRaw == Max(20, 100 + (yFactor * 3) \div 10)
      root == IF harmonics <= 1 THEN 1000
              ELSE IF harmonics = 2 THEN 1414 ELSE IF harmonics = 3 THEN 1732
              ELSE 2000
      rawFilterFreq == 500 + 2 * pan + 3 * yFactor
      minF == 44
      deficit == ((minF - rawFilterFreq) * 1000) \div minF
      compensation == IF rawFilterFreq < minF
                      THEN 1000 + Min(1200, (deficit * 18) \div 10)
                      ELSE 1000
      normalizedBaseGain == (((baseGainRaw * 1000) \div root) * compensation) \div 1000
  IN Min(1000, Max(0, (normalizedBaseGain * 16) \div 10))

\* a dispatch that does not wait for the note to start
NoteDelayNone(delayMs) == 0

\* if (delayMs <= 20) setTimeout(dispatchFn, 0) else setTimeout(dispatchFn, delayMs)
NoteDelay(delayMs) == IF delayMs <= 20 THEN 0 ELSE delayMs

\* the detunes: one rng() call per voice
ToneDetunes(w, c, harmonics, outcome) ==
  IF outcome = "early" THEN w ELSE RngSkip(w, c, harmonics)

\* panner.connect(getMasterOutput(audioCtx)), then the svg-playground:note
\* event is handed to setTimeout
ToneNoteEvent(w, c, note, delayMs, outcome) ==
  IF outcome \in {"early", "mid"} THEN w
  ELSE SetTimeout([w EXCEPT !.master = ConnectToMaster(@, "playRichTone")],
                  "note", c, NoteDelay(delayMs), note)

\* the oscillators are created, started and registered, and the tail cleanup
\* is handed to setTimeout
ToneVoices(w, c, note, harmonics, outcome) ==
  IF outcome # "ok" THEN w
  ELSE SetTimeout(AddVoices(w, c, note, harmonics), "tail", c, TailCleanupMs, note)

\* the call itself, as `notes` records it
ToneCall(w, rec) == [w EXCEPT !.notes = Append(@, rec)]

\* A note starts at startNum / den and lasts durNum / den (ms); l is the
\* loop that asked for it.
PlayRichTone(w, c, freq, durNum, den, startNum, analysis, l) ==
  LET harmonics == Harmonics(analysis)
      note == Len(w.notes) + 1
      outcome == FaultAt(w, note)
      delayMs == Max(0, RoundDiv(startNum - w.now * den, den))
      rec == [c |-> c, loop |-> l, freq |-> freq, startNum |-> startNum,
              durNum |-> durNum, useDurNum |-> Max(durNum, MIN_NOTE_DURATION * den),
              den |-> den, voices |-> harmonics, at |-> w.now,
              intensity |-> Intensity(GetPos(w, c), harmonics),
              outcome |-> outcome]
  IN ToneVoices(
       ToneNoteEvent(ToneDetunes(ToneCall(w, rec), c, harmonics, outcome),
                     c, note, delayMs, outcome),
       c, note, harmonics, outcome)

(***************************************************************************)
(* js/audio.ts: createLiveAudio, fadeAndCleanupLiveAudio                   *)
(***************************************************************************)
CreateLiveAudio(w, c, analysis, noteScale) ==
  LET w0 == EnsureCircleState(w, c)
      noteIndex == FloorTimes(RngPeek(w0, c), Len(SCALES[noteScale]))
      w1 == RngStep(w0, c)
      w2 == RngSkip(w1, c, Harmonics(analysis))
      b == Len(w.bundles) + 1
      w3 == [w2 EXCEPT !.bundles = Append(@,
               [c |-> c, baseFreq |-> SCALES[noteScale][noteIndex + 1],
                createdAt |-> w.now, fadeAt |-> Null,
                gainTarget |-> "base",
                stopped |-> FALSE, stoppedAt |-> Null]),
                       !.master = ConnectToMaster(@, "createLiveAudio")]
  IN SetLiveAudioNodes(w3, c, b)

\* Math.round(LIVE_AUDIO_FADE_SEC * 1000) + extraMs + 20
FadeCleanupMs == LIVE_AUDIO_FADE + (NOTE_STOP_SLACK + NOTE_RELEASE + 20) + 20

\* a fadeAndCleanupLiveAudio that arms its cleanup timer whatever it finds
FadeAndCleanupUnguarded(w, c) ==
  LET nodes == GetLiveAudioNodes(w, c)
  IN IF nodes = NoNodes THEN SetTimeout(w, "fade", c, FadeCleanupMs, nodes)
     ELSE SetTimeout([w EXCEPT !.bundles[nodes].fadeAt = w.now,
                               !.bundles[nodes].gainTarget = "zero"],
                     "fade", c, FadeCleanupMs, nodes)

FadeAndCleanupLiveAudio(w, c) ==
  LET nodes == GetLiveAudioNodes(w, c)
  IN IF nodes = NoNodes THEN w
     ELSE SetTimeout([w EXCEPT !.bundles[nodes].fadeAt = w.now,
                               !.bundles[nodes].gainTarget = "zero"],
                     "fade", c, FadeCleanupMs, nodes)

\* the callback fadeAndCleanupLiveAudio hands to setTimeout
FadeCleanupCallback(w, c) ==
  LET n == GetLiveAudioNodes(w, c)
  IN IF n = NoNodes THEN w
     ELSE StopAndClearLiveAudioNodes(StopBundle(w, n), c)

(***************************************************************************)
(* js/audio.ts: the compensation watcher                                   *)
(***************************************************************************)
WATCH_INTERVAL == 200         \* window.setInterval(..., 200)

\* applyCompensationToActiveOscillators, for the live bundles: for every
\* circle of the document whose entry has a bundle,
\* gain.cancelScheduledValues(now) and gain.setValueAtTime(base * sensitivity,
\* now + 0.01), with the sensitivity at its default of 1.  gainTarget is the
\* value the last automation of the bundle's gain ends at.
ApplyCompensationToActiveOscillators(w) ==
  LET touched(b) == /\ w.dom[w.bundles[b].c].inDOM
                    /\ GetLiveAudioNodes(w, w.bundles[b].c) = b
  IN [w EXCEPT !.bundles =
        [b \in 1..Len(w.bundles) |->
           IF touched(b) THEN [w.bundles[b] EXCEPT !.gainTarget = "base"]
           ELSE w.bundles[b]]]

\* createAudioContext's window.setInterval: the watcher runs every 200 ms
StartCompensationWatcher(w) ==
  SetTimeout(w, "watch", NoCircle, WATCH_INTERVAL, 0)

\* one run of the watcher; the interval stays armed under the same id
WatcherCallback(w, t) ==
  LET w1 == ApplyCompensationToActiveOscillators(w)
      next == IF t.due + WATCH_INTERVAL > w.now THEN t.due + WATCH_INTERVAL
              ELSE w.now + WATCH_INTERVAL
  IN [w1 EXCEPT !.timers = @ \cup {[t EXCEPT !.due = next]}]

(***************************************************************************)
(* js/audio.ts: loopCircleAudio                                            *)
(***************************************************************************)
\* Math.round((x / window.innerWidth - 0.5) * 8), x clamped to the window
TransposeSemis(posX) ==
  LET x == Max(0, Min(posX, INNER_WIDTH * MILLI))
  IN RoundDiv(8 * x - 4 * INNER_WIDTH * MILLI, INNER_WIDTH * MILLI)

\* the scale degree scheduleOneRotation picks for a dash of length len, given
\* the value r the generator returned (0-based, as in the source)
\* Math.round((1 - normalizedLen) * (scale.length - 1))
BaseIndex(len, totalLength, scaleLen) ==
  RoundDiv((totalLength - len) * (scaleLen - 1), totalLength)

\* Math.floor((rng() - 0.5) * 2) for r = word / 2^32: the floor of
\* (word - 2^31) / 2^31, which the low half of the word cannot change
JitterOffset(r) == (r[1] - 32768) \div 32768

\* a choice without the bias to the tonic
NoteIndexUnbiased(len, totalLength, scaleLen, r) ==
  Max(0, Min(scaleLen - 1, BaseIndex(len, totalLength, scaleLen) + JitterOffset(r)))

NoteIndex(len, totalLength, scaleLen, r) ==
  LET baseIndex == BaseIndex(len, totalLength, scaleLen)
      jitterOffset == JitterOffset(r)
      noteIndex == Max(0, Min(scaleLen - 1, baseIndex + jitterOffset))
  IN IF 4 * len > totalLength THEN 0 ELSE noteIndex

\* a loop that an exception thrown by playRichTone leaves
NextSegmentUncaught(outcome, i, n) == IF outcome = "ok" THEN i + 1 ELSE n + 1

\* The entry the `for (const seg of segmentsLoop)` loop goes on with after
\* playRichTone has answered for entry i of n: the call is inside try/catch,
\* so the next one, whatever the answer.
NextSegment(outcome, i, n) == i + 1

\* a loop body that leaves the time cursor where it is
AdvanceCursorStuck(cum, len) == cum

\* t += dur, as the sum of the lengths passed
AdvanceCursor(cum, len) == cum + len

\* One pass of the `for (const seg of segmentsLoop)` loop from entry i on;
\* cum is the sum of the lengths before i, so t = startTime + cum/total * period.
RECURSIVE ScheduleSegments(_, _, _, _, _)
ScheduleSegments(w, l, startTime, i, cum) ==
  LET L == w.loops[l]
  IN IF i > Len(L.dashArray) THEN w
     ELSE
       LET len == L.dashArray[i]
           durNum == len * L.rotationPeriod
       IN IF SegType(i) = "dash" /\ durNum > 0
          THEN
            LET scale == SCALES[L.scale]
                r1 == RngPeek(w, L.c)
                w1 == RngStep(w, L.c)
                noteIndex == NoteIndex(len, L.totalLength, Len(scale), r1)
                r2 == RngPeek(w1, L.c)
                w2 == RngStep(w1, L.c)
                \* scale[noteIndex] * 2^(semis/12) * (0.995 + r2 * 0.01)
                freq == [base |-> scale[noteIndex + 1], semis |-> L.semis, r |-> r2]
                w3 == PlayRichTone(w2, L.c, freq, durNum, L.totalLength,
                                   startTime * L.totalLength + cum * L.rotationPeriod,
                                   L.analysis, l)
            IN ScheduleSegments(w3, l, startTime,
                                NextSegment(FaultAt(w, Len(w.notes) + 1), i,
                                            Len(L.dashArray)),
                                AdvanceCursor(cum, len))
          ELSE ScheduleSegments(w, l, startTime, i + 1, AdvanceCursor(cum, len))

\* scheduleOneRotation(startTime) of loop l
ScheduleOneRotation(w, l, startTime) ==
  LET L == w.loops[l]
      w1 == [w EXCEPT !.rotations[L.c] =
               Append(@, [start |-> startTime, at |-> w.now, loop |-> l])]
      w2 == ScheduleSegments(w1, l, startTime, 1, 0)
      \* t after the loop: startTime + (sum of lengths / totalLength) * period
      t == startTime + (SumSeq(L.dashArray) * L.rotationPeriod) \div L.totalLength
  IN SetScheduledUntil(w2, L.c, t)

\* a scheduler that fills one rotation past the horizon
RECURSIVE FillHorizonOneMore(_, _, _, _)
FillHorizonOneMore(w, l, scheduledUntil, horizon) ==
  IF scheduledUntil >= horizon + w.loops[l].rotationPeriod THEN w
  ELSE IF w.loops[l].rotationPeriod <= 0
       THEN [ScheduleOneRotation(w, l, scheduledUntil) EXCEPT !.hung = TRUE]
       ELSE FillHorizonOneMore(ScheduleOneRotation(w, l, scheduledUntil), l,
                               scheduledUntil + w.loops[l].rotationPeriod, horizon)

\* The `while (scheduledUntil < horizon)` loop of schedulerTick.  With
\* rotationPeriod <= 0 the loop variable never grows: once entered, the loop
\* schedules the same rotation over and over and the callback never returns.
RECURSIVE FillHorizon(_, _, _, _)
FillHorizon(w, l, scheduledUntil, horizon) ==
  IF scheduledUntil >= horizon THEN w
  ELSE IF w.loops[l].rotationPeriod <= 0
       THEN [ScheduleOneRotation(w, l, scheduledUntil) EXCEPT !.hung = TRUE]
       ELSE FillHorizon(ScheduleOneRotation(w, l, scheduledUntil), l,
                        scheduledUntil + w.loops[l].rotationPeriod, horizon)

\* a horizon twice as far ahead
HorizonTwice(current) == current + 2 * LOOP_SCHEDULE_AHEAD

\* horizon = current + lookahead
Horizon(current) == current + LOOP_SCHEDULE_AHEAD

\* a scheduler that starts every tick from the current time, whatever is
\* already scheduled
TickStartFromNow(stored, current) == current + START_OFFSET

\* a scheduler that goes on from the stored scheduledUntil however far
\* behind the clock it is
TickStartStored(stored, current) == IF stored = Null THEN current ELSE stored

\* where schedulerTick starts scheduling from
TickStart(stored, current) ==
  LET scheduledUntil == IF stored = Null THEN current ELSE stored
  IN IF scheduledUntil < current + BEHIND_MARGIN
     THEN current + START_OFFSET
     ELSE scheduledUntil

\* tid = window.setTimeout(schedulerTick, schedulerIntervalMs);
\* setLoopTimeout(circle, tid): reached only when what runs before it returns
QueueTick(w, l) ==
  IF w.hung THEN w
  ELSE SetLoopTimeout(SetTimeout(w, "tick", w.loops[l].c,
                                 Max(20, SCHEDULER_INTERVAL), l),
                      w.loops[l].c, w.nextTimer)

\* schedulerTick of loop l, the callback of a "tick" timer
SchedulerTick(w, l) ==
  QueueTick(FillHorizon(w, l,
                        TickStart(GetScheduledUntil(w, w.loops[l].c), w.now),
                        Horizon(w.now)),
            l)

\* what the closures of one loopCircleAudio call close over
LoopClosure(c, rotationPeriod, dashArray, totalLength, analysis, posX) ==
  [c |-> c, rotationPeriod |-> rotationPeriod, dashArray |-> dashArray,
   totalLength |-> totalLength, analysis |-> analysis,
   scale |-> ChooseScale(analysis), semis |-> TransposeSemis(posX)]

\* loopCircleAudio from its clearLoopTimeout on; l is the new closure
StartLoop(w, l) ==
  QueueTick(ScheduleOneRotation(ClearLoopTimeout(w, w.loops[l].c), l,
                                w.now + START_OFFSET),
            l)

LoopCircleAudio(w, c) ==
  LET holdMs == IF GetHoldDuration(w, c) = Null THEN DEFAULT_HOLD
                ELSE GetHoldDuration(w, c)
      rotationPeriod == holdMs           \* holdMs / 1000 seconds
      \* lengths in hundredths
      dashArray == ParseDashAttr(w.dom[c].dash)
      sum == SumSeq(dashArray)
      totalLength == IF sum = 0 THEN 100 ELSE sum      \* || 1
      segmentsLoop == [i \in 1..Len(dashArray) |->
                         [type |-> SegType(i), length |-> dashArray[i]]]
  IN IF Len(dashArray) = 0 THEN w
     ELSE StartLoop([w EXCEPT !.loops = Append(@,
                       LoopClosure(c, rotationPeriod, dashArray, totalLength,
                                   AnalyzeSegments(segmentsLoop, totalLength),
                                   GetPos(w, c).x))],
                    Len(w.loops) + 1)

(***************************************************************************)
(* js/circles.ts                                                           *)
(***************************************************************************)
\* a circle element that does not exist yet; seed records what createCircleAt
\* seeded the generator with, cleared that onClearClick or destroy() has
\* processed the circle
NoElement ==
  [inDOM |-> FALSE, dash |-> <<>>, seed |-> Null, cleared |-> FALSE,
   animation |-> Null]

\* createCircleAt(svg, loc) for the c-th circle.  The ghost outline it also
\* appends has no state entry, so every state call on it is a no-op; it is
\* left out.
\* Math.floor(loc.x * 1000 + loc.y * 1000 + performance.now())
CircleSeed(loc, t) == loc.x + loc.y + t

CreateCircleAt(w, c, loc) ==
  EnsureCircleStateInit(
    [w EXCEPT !.dom[c] = [inDOM |-> TRUE, dash |-> EmptyPattern,
                          seed |-> CircleSeed(loc, w.now), cleared |-> FALSE,
                          animation |-> Null]],
    c, loc, SeededRng(CircleSeed(loc, w.now)))

\* emotionalExit(circle): the state goes at once, the element after the
\* animation (durationMs + 40)
EmotionalExit(w, c) ==
  SetTimeout(DeleteState(w, c), "exit", c, EXIT_DURATION + 40, 0)

\* the callback of emotionalExit: parentNode.removeChild(circle)
ExitCallback(w, c) == [w EXCEPT !.dom[c].inDOM = FALSE]

(***************************************************************************)
(* js/app.ts: the handlers init() registers.  app holds init()'s locals;   *)
(* the requestAnimationFrame preview only rewrites the stroke-dasharray of *)
(* the circle being recorded, which finalizeCurrentCircle overwrites       *)
(* before anything reads it, so it is left out, as are the debug overlays. *)
(***************************************************************************)
IdleApp(listening) ==
  [currentCircle |-> NoCircle, holdStart |-> Null, lastSegmentStart |-> Null,
   isSpaceDown |-> FALSE, segments |-> <<>>, listening |-> listening]

HasDash(segments) ==
  \E i \in 1..Len(segments) : segments[i].type = "dash" /\ segments[i].duration > 0

\* the circles svgEl.querySelectorAll('circle') returns, in document order
RECURSIVE CirclesInDom(_, _)
CirclesInDom(w, c) ==
  IF c > MaxCircles THEN <<>>
  ELSE (IF w.dom[c].inDOM THEN <<c>> ELSE <<>>) \o CirclesInDom(w, c + 1)

\* the body of onClearClick's loop for one circle
ClearOne(w, c) ==
  LET w1 == IF GetLoopTimeout(w, c) # NoTimer THEN ClearLoopTimeout(w, c) ELSE w
      w2 == IF GetLiveAudioNodes(w1, c) # NoNodes
            THEN FadeAndCleanupLiveAudio(w1, c) ELSE w1
      w3 == StopAndClearActiveOscillators(w2, c)
  IN [w3 EXCEPT !.dom[c].inDOM = FALSE, !.dom[c].cleared = TRUE]

RECURSIVE ClearAll(_, _)
ClearAll(w, cs) ==
  IF cs = <<>> THEN w ELSE ClearAll(ClearOne(w, Head(cs)), Tail(cs))

\* the body of destroy()'s loop for one circle
DestroyOne(w, c) ==
  LET w1 == IF GetLoopTimeout(w, c) # NoTimer THEN ClearLoopTimeout(w, c) ELSE w
      w2 == IF GetLiveAudioNodes(w1, c) # NoNodes
            THEN FadeAndCleanupLiveAudio(w1, c) ELSE w1
      w3 == StopAndClearActiveOscillators(w2, c)
      w4 == IF GetLiveAudioNodes(w3, c) # NoNodes
            THEN FadeAndCleanupLiveAudio(w3, c) ELSE w3
  IN [w4 EXCEPT !.dom[c].cleared = TRUE]

RECURSIVE DestroyAll(_, _)
DestroyAll(w, cs) ==
  IF cs = <<>> THEN w ELSE DestroyAll(DestroyOne(w, Head(cs)), Tail(cs))

\* the analysis onKeyDown hands to createLiveAudio
LiveAnalysis(segments, totalDuration) ==
  LET d == Max(1, totalDuration)
      currentSegments ==
        [i \in 1..Len(segments) |->
           [type |-> segments[i].type,
            length |-> 100 * SegmentLength(segments[i].duration, d)]]
  IN AnalyzeSegments(currentSegments, CIRCUMFERENCE_X100)

\* onKeyDown from createLiveAudio on: the bundle createLiveAudio returned
\* (and stored) is stored again
KeyDownWorld(w, c, analysis) ==
  SetLiveAudioNodes(CreateLiveAudio(w, c, analysis, ChooseScale(analysis)),
                    c, Len(w.bundles) + 1)

\* finalizeCurrentCircle, past its guard
FinalizeWorld(w, c, segs, total) ==
  LET dashArray == BuildDashArray(segs, "none", 0, total)
      w1 == FadeAndCleanupLiveAudio(w, c)
  IN IF ~HasDash(segs) THEN EmotionalExit(w1, c)
     ELSE
       \* style.animation = `spin ${total / 1000}s linear infinite`
       LET w2 == [w1 EXCEPT !.dom[c].dash = dashArray,
                            !.dom[c].animation = total]
           w3 == SetHoldDuration(SetSegments(w2, c, segs), c, total)
       IN LoopCircleAudio(w3, c)

(***************************************************************************)
(* The state machine                                                       *)
(***************************************************************************)
\* no function of js/utils.ts has been called directly
NoProbe == [fn |-> "none"]

\* pointer positions tried, in 1/1000 svg unit
PointerXs == {200000}
PointerYs == {300000}
\* how far the clock moves in one step: a scheduler interval, or past every
\* pending cleanup
AppSteps == {50, 750}

Init ==
  /\ now = 0
  /\ stateMap = [c \in Circles |-> NoEntry]
  /\ dom = [c \in Circles |-> NoElement]
  /\ timers = {}
  /\ nextTimer = 1
  /\ bundles = <<>>
  /\ loops = <<>>
  /\ rotations = [c \in Circles |-> <<>>]
  /\ notes = <<>>
  /\ notified = [c \in Circles |-> <<>>]
  /\ app = IdleApp(TRUE)
  /\ nextCircle = 0
  /\ advances = 0
  /\ inputs = 0
  /\ lastOp = [op |-> "init", c |-> NoCircle]
  /\ masterNodesMap = CreateAudioContext
  /\ faults = <<>>
  /\ hung = FALSE
  /\ stops = {}
  /\ probe = NoProbe

Did(op, c) == lastOp' = [op |-> op, c |-> c]

\* an input event is delivered to its handler
Input(op, c) == inputs < MaxInputs /\ inputs' = inputs + 1 /\ Did(op, c)
\* a timer callback runs
Ran(op, c) == inputs' = inputs /\ Did(op, c)

\* Handlers run one at a time, and a callback that is due runs before the
\* next input event is delivered.
NoneDue == ~hung /\ \A t \in timers : t.due > now

\* onPointerDown: no guard on a recording already in progress
OnPointerDown(x, y) ==
  /\ app.listening /\ NoneDue
  /\ nextCircle < MaxCircles
  /\ LET c == nextCircle + 1
     IN /\ Commit(CreateCircleAt(World, c, [x |-> x, y |-> y]))
        /\ nextCircle' = c
        /\ app' = [app EXCEPT !.currentCircle = c, !.holdStart = now,
                              !.lastSegmentStart = now, !.segments = <<>>,
                              !.isSpaceDown = FALSE]
        /\ Input("pointerdown", c)
  /\ UNCHANGED <<probe, now, advances>>

\* onPointerUp (pointerup, pointerleave) -> finalizeCurrentCircle
OnPointerUp ==
  /\ app.listening /\ NoneDue
  /\ app.currentCircle # NoCircle
  /\ app.holdStart # Null /\ app.lastSegmentStart # Null
  /\ LET c == app.currentCircle
         segs == Append(app.segments,
                        [type |-> IF app.isSpaceDown THEN "dash" ELSE "gap",
                         duration |-> now - app.lastSegmentStart])
     IN /\ Commit(FinalizeWorld(World, c, segs, now - app.holdStart))
        /\ Input("finalize", c)
  /\ app' = IdleApp(TRUE)
  /\ UNCHANGED <<probe, now, nextCircle, advances>>

\* onPointerCancel -> abortCurrentRecording
OnPointerCancel ==
  /\ app.listening /\ NoneDue
  /\ app.currentCircle # NoCircle
  /\ LET c == app.currentCircle
         w1 == FadeAndCleanupLiveAudio(World, c)
     IN /\ Commit([w1 EXCEPT !.dom[c].inDOM = FALSE])
        /\ Input("abort", c)
  /\ app' = IdleApp(TRUE)
  /\ UNCHANGED <<probe, now, nextCircle, advances>>

\* onKeyDown (Space)
OnKeyDown ==
  /\ app.listening /\ NoneDue
  /\ app.currentCircle # NoCircle /\ ~app.isSpaceDown
  /\ Len(app.segments) < MaxSegments
  /\ LET c == app.currentCircle
         last == IF app.lastSegmentStart = Null THEN now ELSE app.lastSegmentStart
         start == IF app.holdStart = Null THEN now ELSE app.holdStart
         segs == Append(app.segments, [type |-> "gap", duration |-> now - last])
     IN /\ Commit(KeyDownWorld(World, c, LiveAnalysis(segs, now - start)))
        /\ app' = [app EXCEPT !.segments = segs, !.lastSegmentStart = now,
                              !.isSpaceDown = TRUE]
        /\ Input("keydown", c)
  /\ UNCHANGED <<probe, now, nextCircle, advances>>

\* onKeyUp (Space)
OnKeyUp ==
  /\ app.listening /\ NoneDue
  /\ app.currentCircle # NoCircle /\ app.isSpaceDown
  /\ LET c == app.currentCircle
         last == IF app.lastSegmentStart = Null THEN now ELSE app.lastSegmentStart
     IN /\ Commit(FadeAndCleanupLiveAudio(World, c))
        /\ app' = [app EXCEPT !.segments = Append(@, [type |-> "dash",
                                                      duration |-> now - last]),
                              !.lastSegmentStart = now, !.isSpaceDown = FALSE]
        /\ Input("keyup", c)
  /\ UNCHANGED <<probe, now, nextCircle, advances>>

\* onClearClick: the recording state of init() is left as it is
OnClearClick ==
  /\ app.listening /\ NoneDue
  /\ Commit(ClearAll(World, CirclesInDom(World, 1)))
  /\ Input("clear", NoCircle)
  /\ UNCHANGED <<probe, now, app, nextCircle, advances>>

\* destroy()
Destroy ==
  /\ app.listening /\ NoneDue
  /\ Commit(DestroyAll(World, CirclesInDom(World, 1)))
  /\ app' = [app EXCEPT !.listening = FALSE]
  /\ Input("destroy", NoCircle)
  /\ UNCHANGED <<probe, now, nextCircle, advances>>

(***************************************************************************)
(* Timer callbacks.  A callback runs no earlier than its due time and may  *)
(* run late; callbacks run in the order of their due times, ties in the    *)
(* order they were set.                                                    *)
(***************************************************************************)
\* dispatchFn of playRichTone: document.dispatchEvent(svg-playground:note)
\* with the detail {circleId, freq, duration, intensity} made when the note
\* was scheduled
NoteDispatch(w, c, note) ==
  [w EXCEPT !.notified[c] =
     Append(@, [note |-> note, at |-> w.now, circleId |-> c,
                freq |-> w.notes[note].freq,
                duration |-> [num |-> w.notes[note].useDurNum,
                              den |-> w.notes[note].den],
                intensity |-> w.notes[note].intensity])]

\* the tail cleanup of playRichTone: the tail nodes are disconnected
TailCleanup(w) == w

IsNextTimer(t) ==
  /\ ~hung
  /\ t \in timers
  /\ t.due <= now
  /\ \A u \in timers :
       u.due <= now => (u.due > t.due \/ (u.due = t.due /\ u.id >= t.id))

\* the world in which timer t has been taken off the queue
Taken(t) == [World EXCEPT !.timers = @ \ {t}]

FireTick ==
  \E t \in timers :
    /\ IsNextTimer(t) /\ t.kind = "tick"
    /\ Commit(SchedulerTick(Taken(t), t.arg))
    /\ Ran("tick", t.c)
    /\ UNCHANGED <<probe, now, app, nextCircle, advances>>

FireFade ==
  \E t \in timers :
    /\ IsNextTimer(t) /\ t.kind = "fade"
    /\ Commit(FadeCleanupCallback(Taken(t), t.c))
    /\ Ran("fadecleanup", t.c)
    /\ UNCHANGED <<probe, now, app, nextCircle, advances>>

FireNote ==
  \E t \in timers :
    /\ IsNextTimer(t) /\ t.kind = "note"
    /\ Commit(NoteDispatch(Taken(t), t.c, t.arg))
    /\ Ran("notedispatch", t.c)
    /\ UNCHANGED <<probe, now, app, nextCircle, advances>>

FireTail ==
  \E t \in timers :
    /\ IsNextTimer(t) /\ t.kind = "tail"
    /\ Commit(TailCleanup(Taken(t)))
    /\ Ran("tailcleanup", t.c)
    /\ UNCHANGED <<probe, now, app, nextCircle, advances>>

FireExit ==
  \E t \in timers :
    /\ IsNextTimer(t) /\ t.kind = "exit"
    /\ Commit(ExitCallback(Taken(t), t.c))
    /\ Ran("exitremove", t.c)
    /\ UNCHANGED <<probe, now, app, nextCircle, advances>>

\* The clock moves on by step, at most max times in one run, and only when
\* no callback is due: a callback runs late by less than one step.
Advance(step, max) ==
  /\ advances < max
  /\ NoneDue
  /\ now' = now + step
  /\ advances' = advances + 1
  /\ Ran("advance", NoCircle)
  /\ UNCHANGED <<stateMap, dom, timers, nextTimer, bundles, loops, rotations,
                 notes, notified, app, nextCircle, masterNodesMap, faults,
                 hung, stops, probe>>

Next ==
  \/ \E x \in PointerXs, y \in PointerYs : OnPointerDown(x, y)
  \/ OnPointerUp
  \/ OnPointerCancel
  \/ OnKeyDown
  \/ OnKeyUp
  \/ OnClearClick
  \/ Destroy
  \/ FireTick
  \/ FireFade
  \/ FireNote
  \/ FireTail
  \/ FireExit
  \/ \E step \in AppSteps : Advance(step, MaxAdvances)

Spec == Init /\ [][Next]_vars

(***************************************************************************)
(* Recordings.  The handlers of js/app.ts run one after the other from the *)
(* empty page: pointerdown, Space down after p.a ms, then either Space up  *)
(* after p.d ms and pointerup after p.g ms more, or (p.held) pointerup     *)
(* after p.d ms with Space still down.  Callbacks that come due on the way *)
(* run before the next handler.                                            *)
(***************************************************************************)
EmptyWorld ==
  [now |-> 0, sm |-> [c \in Circles |-> NoEntry],
   dom |-> [c \in Circles |-> NoElement], timers |-> {}, nextTimer |-> 1,
   bundles |-> <<>>, loops |-> <<>>, rotations |-> [c \in Circles |-> <<>>],
   notes |-> <<>>, notified |-> [c \in Circles |-> <<>>],
   master |-> CreateAudioContext, faults |-> <<>>,
   hung |-> FALSE, stops |-> {}]

\* the callback of timer t, which has been taken off the queue
RunCallback(w, t) ==
  CASE t.kind = "tick" -> SchedulerTick(w, t.arg)
    [] t.kind = "fade" -> FadeCleanupCallback(w, t.c)
    [] t.kind = "note" -> NoteDispatch(w, t.c, t.arg)
    [] t.kind = "tail" -> TailCleanup(w)
    [] t.kind = "exit" -> ExitCallback(w, t.c)

\* the callback that runs next: the earliest due, ties in the order set
NextDue(w) ==
  CHOOSE t \in w.timers :
    /\ t.due <= w.now
    /\ \A u \in w.timers :
         u.due <= w.now => (u.due > t.due \/ (u.due = t.due /\ u.id >= t.id))

RunNext(w, t) == RunCallback([w EXCEPT !.timers = @ \ {t}], t)

RECURSIVE RunDue(_)
RunDue(w) ==
  IF \A t \in w.timers : t.due > w.now THEN w
  ELSE RunDue(RunNext(w, NextDue(w)))

\* the world ms later, the callbacks due by then run
Later(w, ms) == RunDue([w EXCEPT !.now = @ + ms])

Gap(ms) == [type |-> "gap", duration |-> ms]
Dash(ms) == [type |-> "dash", duration |-> ms]

\* `segments` of init() before and after finalizeCurrentCircle's push
RecSegments(p) == IF p.held THEN <<Gap(p.a)>> ELSE <<Gap(p.a), Dash(p.d)>>
FinalSegments(p) ==
  Append(RecSegments(p), IF p.held THEN Dash(p.d) ELSE Gap(p.g))
HoldOf(p) == p.a + p.d + (IF p.held THEN 0 ELSE p.g)
\* the input events of the recording: pointerdown, keydown, keyup, pointerup
InputsOf(p) == IF p.held THEN 3 ELSE 4

\* onKeyDown p.a ms after the pointer went down
RecKeyDown(w, c, p) ==
  KeyDownWorld(Later(w, p.a), c, LiveAnalysis(<<Gap(p.a)>>, p.a))

\* onKeyUp p.d ms later, unless Space is held to the end
RecKeyUp(w, c, p) ==
  IF p.held THEN w ELSE FadeAndCleanupLiveAudio(Later(w, p.d), c)

\* the world with circle c created at loc and recorded up to the pointerup
Recorded(w, c, loc, p) ==
  RecKeyUp(RecKeyDown(CreateCircleAt(w, c, loc), c, p), c, p)

\* onPointerUp -> finalizeCurrentCircle
RecPointerUp(w, c, p) ==
  FinalizeWorld(Later(w, IF p.held THEN p.d ELSE p.g), c,
                FinalSegments(p), HoldOf(p))

\* init()'s locals while circle c is being recorded as p, t0 its pointerdown
RecordingApp(c, p, t0) ==
  [currentCircle |-> c, holdStart |-> t0,
   lastSegmentStart |-> t0 + p.a + (IF p.held THEN 0 ELSE p.d),
   isSpaceDown |-> p.held, segments |-> RecSegments(p), listening |-> TRUE]

\* the variables of a run that starts from world w, with init()'s locals a,
\* n circles created and k input events delivered
StartFrom(w, a, n, k, op) ==
  /\ now = w.now
  /\ stateMap = w.sm
  /\ dom = w.dom
  /\ timers = w.timers
  /\ nextTimer = w.nextTimer
  /\ bundles = w.bundles
  /\ loops = w.loops
  /\ rotations = w.rotations
  /\ notes = w.notes
  /\ notified = w.notified
  /\ masterNodesMap = w.master
  /\ faults = w.faults
  /\ hung = w.hung
  /\ stops = w.stops
  /\ probe = NoProbe
  /\ app = a
  /\ nextCircle = n
  /\ advances = 0
  /\ inputs = k
  /\ lastOp = op

(***************************************************************************)
(* The loop scheduler on its own: one circle has just been finalized with  *)
(* a short recording; the clock then moves in steps of a few milliseconds. *)
(***************************************************************************)
MaxSchedAdvances == 8    \* times the clock advances in one scheduler run

SchedPatterns ==
  {[a |-> a, d |-> d, g |-> g, held |-> FALSE] :
     a \in {0, 10}, d \in {10, 20}, g \in {0, 10, 30}}
  \cup {[a |-> a, d |-> d, g |-> 0, held |-> TRUE] : a \in {0, 10}, d \in {10, 20}}

\* a step of the clock, and a step that makes the pending tick late
SchedSteps == {10, 60}

SchedInit ==
  \E p \in SchedPatterns, x \in PointerXs, y \in PointerYs :
    StartFrom(RecPointerUp(Recorded(EmptyWorld, 1, [x |-> x, y |-> y], p), 1, p),
              IdleApp(TRUE), 1, InputsOf(p), [op |-> "finalize", c |-> 1])

NextSched ==
  \/ FireTick
  \/ FireFade
  \/ FireNote
  \/ FireTail
  \/ OnClearClick
  \/ \E step \in SchedSteps : Advance(step, MaxSchedAdvances)

SpecSched == SchedInit /\ [][NextSched]_vars


(***************************************************************************)
(* Two circles with chosen seeds: circle 1 has been recorded and finalized *)
(* from the empty page; circle 2 was created at the instant circle 1 was   *)
(* finalized and has been recorded up to its pointerup, which is yet to    *)
(* come.                                                                   *)
(***************************************************************************)
MaxDetAdvances == 3      \* times the clock advances in one such run

DetPatterns ==
  {[a |-> 0, d |-> 10, g |-> 10, held |-> FALSE],
   [a |-> 10, d |-> 20, g |-> 0, held |-> FALSE],
   [a |-> 0, d |-> 20, g |-> 0, held |-> TRUE]}

\* pointer positions, in 1/1000 svg unit: two columns that transpose
\* differently, and rows chosen so that seeds can coincide
DetXs == {300000, 700000}
DetYs == {500000}
DetLocs(p, x1, y1) ==
  {[x |-> x2, y |-> y1 + dy - HoldOf(p)] :
     x2 \in DetXs, dy \in {0, 1000, x1 - 300000, x1 - 700000}}

DetSteps == {10, 250}

DetInit ==
  \E p \in DetPatterns, q \in DetPatterns, x1 \in DetXs, y1 \in DetYs :
    \E loc2 \in DetLocs(p, x1, y1) :
      StartFrom(
        Recorded(
          Later(RecPointerUp(Recorded(EmptyWorld, 1, [x |-> x1, y |-> y1], p),
                             1, p),
                0),
          2, loc2, q),
        RecordingApp(2, q, HoldOf(p)), 2, 0,
        [op |-> IF q.held THEN "keydown" ELSE "keyup", c |-> 2])

NextDet ==
  \/ OnPointerUp
  \/ FireTick
  \/ FireFade
  \/ FireNote
  \/ FireTail
  \/ \E step \in DetSteps : Advance(step, MaxDetAdvances)

SpecDet == DetInit /\ [][NextDet]_vars

(***************************************************************************)
(* The functions of js/utils.ts called directly, with segment sequences    *)
(* and analyses drawn from small sets; probe records the one call of a     *)
(* run.                                                                    *)
(***************************************************************************)
MaxProbeSegments == 3    \* segments handed to buildDashArray, analyzeSegments
MaxProbeTypes == 6       \* segments behind an analysis handed to chooseScale

\* every variable but probe
engineVars ==
  <<now, stateMap, dom, timers, nextTimer, bundles, loops, rotations, notes,
    notified, app, nextCircle, advances, inputs, lastOp, masterNodesMap,
    faults, hung, stops>>

SeqsUpTo(S, n) == UNION {[1..k -> S] : k \in 0..n}

SegmentTypes == {"dash", "gap"}
\* durations in ms, lengths in hundredths of a unit
ProbeDurations == {0, 1, 40}
ProbeLengths == {0, 100, 5000}
ProbeTotals == {0, 1, 60, 200}
ProbeLiveDurations == {0, 20}
ProbeTotalLengths == {0, 100, CIRCUMFERENCE_X100}

ProbeSegments ==
  SeqsUpTo([type : SegmentTypes, duration : ProbeDurations], MaxProbeSegments)
ProbeSegmentLengths ==
  SeqsUpTo([type : SegmentTypes, length : ProbeLengths], MaxProbeSegments)
\* the analyses of the sequences of up to MaxProbeTypes segments of one unit
ProbeAnalyses ==
  {AnalyzeSegments([i \in 1..Len(ts) |-> [type |-> ts[i], length |-> 100]],
                   100 * Max(1, Len(ts))) :
     ts \in SeqsUpTo(SegmentTypes, MaxProbeTypes)}

UtilsInit ==
  StartFrom(EmptyWorld, IdleApp(TRUE), 0, 0, [op |-> "init", c |-> NoCircle])

CallBuildDashArray ==
  /\ probe = NoProbe
  /\ \E segs \in ProbeSegments, liveType \in SegmentTypes \cup {"none"},
        liveDuration \in ProbeLiveDurations, total \in ProbeTotals :
       /\ probe' = [fn |-> "buildDashArray", segments |-> segs,
                    liveType |-> liveType, liveDuration |-> liveDuration,
                    totalDurationMs |-> total,
                    out |-> BuildDashArray(segs, liveType, liveDuration, total)]
       /\ UNCHANGED engineVars

CallAnalyzeSegments ==
  /\ probe = NoProbe
  /\ \E segs \in ProbeSegmentLengths, total \in ProbeTotalLengths :
       /\ probe' = [fn |-> "analyzeSegments", segments |-> segs,
                    totalLength |-> total, out |-> AnalyzeSegments(segs, total)]
       /\ UNCHANGED engineVars

CallChooseScale ==
  /\ probe = NoProbe
  /\ \E analysis \in ProbeAnalyses :
       /\ probe' = [fn |-> "chooseScale", analysis |-> analysis,
                    out |-> SCALES[ChooseScale(analysis)]]
       /\ UNCHANGED engineVars

NextUtils ==
  \/ CallBuildDashArray
  \/ CallAnalyzeSegments
  \/ CallChooseScale

SpecUtils == UtilsInit /\ [][NextUtils]_vars

(***************************************************************************)
(* The choice of a scale degree in scheduleOneRotation, for one on segment *)
(* of a pattern, with the value the generator returns drawn from a set;    *)
(* probe records the one choice of a run.                                  *)
(***************************************************************************)
\* lengths in hundredths of a unit, of a pattern of total length 10 units
ProbeNoteTotal == 1000
ProbeNoteLengths == {1, 100, 125, 250, 251, 300, 500, 900, 1000}
\* values of rng(), as words: 0, 0.25, just below 0.5, 0.5, 0.75, just below 1
ProbeRandoms ==
  {<<0, 0>>, <<16384, 0>>, <<32767, 65535>>, <<32768, 0>>, <<49152, 0>>,
   <<65535, 65535>>}

PickNoteIndex ==
  /\ probe = NoProbe
  /\ \E len \in ProbeNoteLengths, name \in DOMAIN SCALES, r \in ProbeRandoms :
       /\ probe' = [fn |-> "noteIndex", len |-> len, totalLength |-> ProbeNoteTotal,
                    scale |-> name, r |-> r,
                    baseIndex |-> BaseIndex(len, ProbeNoteTotal, Len(SCALES[name])),
                    jitterOffset |-> JitterOffset(r),
                    out |-> NoteIndex(len, ProbeNoteTotal, Len(SCALES[name]), r)]
       /\ UNCHANGED engineVars

NextNote == PickNoteIndex

SpecNote == UtilsInit /\ [][NextNote]_vars

(***************************************************************************)
(* The engine called directly: a circle has been created, its              *)
(* stroke-dasharray attribute and its hold duration are whatever the       *)
(* caller left there, and loopCircleAudio, createLiveAudio and             *)
(* playClickTone are called for it in any order.                           *)
(***************************************************************************)
MaxLoopCalls == 1        \* calls of loopCircleAudio in one run
MaxLoopAdvances == 3     \* times the clock advances in one such run
MaxFaultCalls == 3       \* playRichTone calls the audio context may fail
MaxMasterCalls == 5      \* calls on one audio context in one run

\* attributes: none, zeros only, not a list of numbers, the empty pattern,
\* one dash and one gap, two dashes and two gaps
LoopAttrs ==
  {<<>>, Join(<<0, 0>>), <<"n", "o", "n", "e">>, EmptyPattern,
   Join(<<10, 20>>), Join(<<5, 5, 5, 5>>)}
\* hold durations: never set, zero, and one shorter than the lookahead
LoopHolds == {Null, 0, 40}
LoopSteps == {10, 60, 300}

\* circle 1 as the caller left it, before an audio context that answers the
\* first playRichTone calls as fs says and has the master nodes m
LoopWorld(attr, hold, fs, m) ==
  LET w0 == CreateCircleAt([EmptyWorld EXCEPT !.faults = fs, !.master = m], 1,
                           [x |-> 200000, y |-> 300000])
      w1 == [w0 EXCEPT !.dom[1].dash = attr]
  IN IF hold = Null THEN w1 ELSE SetHoldDuration(w1, 1, hold)

NoFaults == [n \in 1..MaxFaultCalls |-> "ok"]

\* every attribute and hold duration with a sound audio context, and the
\* two-dash pattern with a failing one
LoopInit ==
  \E attr \in LoopAttrs, hold \in LoopHolds, fs \in [1..MaxFaultCalls -> Outcomes] :
    /\ fs = NoFaults \/ (attr = Join(<<5, 5, 5, 5>>) /\ hold = 40)
    /\ StartFrom(LoopWorld(attr, hold, fs, CreateAudioContext), IdleApp(TRUE),
                 1, 0, [op |-> "init", c |-> NoCircle])

\* a direct call of an exported function, at most max of them in one run
Call(op, c, max) == inputs < max /\ inputs' = inputs + 1 /\ Did(op, c)

LoopCircleAudioCalled(c, max) ==
  /\ NoneDue /\ dom[c].inDOM
  /\ Commit(LoopCircleAudio(World, c))
  /\ Call("loopCircleAudio", c, max)
  /\ UNCHANGED <<probe, now, app, nextCircle, advances>>

NextLoop ==
  \/ \E c \in Circles : LoopCircleAudioCalled(c, MaxLoopCalls)
  \/ FireTick
  \/ FireNote
  \/ FireTail
  \/ \E step \in LoopSteps : Advance(step, MaxLoopAdvances)

SpecLoop == LoopInit /\ [][NextLoop]_vars

(***************************************************************************)
(* One audio context, made by createAudioContext or constructed by the     *)
(* caller, and the functions that route sound to its master output called  *)
(* in any order.                                                           *)
(***************************************************************************)
MasterInit ==
  \E m \in {NoMasterNodes, CreateAudioContext} :
    StartFrom(LoopWorld(Join(<<10, 20>>), 40, <<>>, m), IdleApp(TRUE), 1, 0,
              [op |-> "init", c |-> NoCircle])

CreateLiveAudioCalled(c) ==
  /\ NoneDue /\ dom[c].inDOM
  /\ Commit(CreateLiveAudio(World, c, LiveAnalysis(<<>>, 0), "pentatonic"))
  /\ Call("createLiveAudio", c, MaxMasterCalls)
  /\ UNCHANGED <<probe, now, app, nextCircle, advances>>

PlayClickToneCalled ==
  /\ NoneDue
  /\ Commit(PlayClickTone(World))
  /\ Call("playClickTone", NoCircle, MaxMasterCalls)
  /\ UNCHANGED <<probe, now, app, nextCircle, advances>>

NextMaster ==
  \/ \E c \in Circles : LoopCircleAudioCalled(c, MaxMasterCalls)
  \/ \E c \in Circles : CreateLiveAudioCalled(c)
  \/ PlayClickToneCalled
  \/ FireNote

SpecMaster == MasterInit /\ [][NextMaster]_vars

(***************************************************************************)
(* Teardown: one circle has been recorded and finalized and its loop runs; *)
(* then Clear is clicked, destroy() runs, or deleteState or emotionalExit  *)
(* is called for the circle, while the clock moves and callbacks fire.     *)
(***************************************************************************)
MaxTeardownCalls == 6     \* input events and direct calls in one teardown run
MaxTeardownAdvances == 3  \* times the clock advances in one teardown run

TeardownPatterns ==
  {[a |-> 0, d |-> 10, g |-> 0, held |-> TRUE],
   [a |-> 10, d |-> 20, g |-> 10, held |-> FALSE]}

\* a scheduler interval and a bit, and past the fade and tail cleanups
TeardownSteps == {60, 250}

TeardownInit ==
  \E p \in TeardownPatterns :
    StartFrom(RecPointerUp(Recorded(EmptyWorld, 1, [x |-> 200000, y |-> 300000], p),
                           1, p),
              IdleApp(TRUE), 1, InputsOf(p), [op |-> "finalize", c |-> 1])

\* deleteState(circle), called directly
DeleteStateCalled(c) ==
  /\ NoneDue /\ c <= nextCircle
  /\ Commit(DeleteState(World, c))
  /\ Call("deleteState", c, MaxTeardownCalls)
  /\ UNCHANGED <<probe, now, app, nextCircle, advances>>

\* emotionalExit(circle), called directly
EmotionalExitCalled(c) ==
  /\ NoneDue /\ c <= nextCircle
  /\ Commit(EmotionalExit(World, c))
  /\ Call("emotionalExit", c, MaxTeardownCalls)
  /\ UNCHANGED <<probe, now, app, nextCircle, advances>>

NextTeardown ==
  \/ OnClearClick
  \/ Destroy
  \/ \E c \in Circles : DeleteStateCalled(c)
  \/ \E c \in Circles : EmotionalExitCalled(c)
  \/ FireTick
  \/ FireFade
  \/ FireNote
  \/ FireTail
  \/ FireExit
  \/ \E step \in TeardownSteps : Advance(step, MaxTeardownAdvances)

SpecTeardown == TeardownInit /\ [][NextTeardown]_vars

(***************************************************************************)
(* Cleanup: one circle on the page, never recorded; loopCircleAudio,       *)
(* createLiveAudio and the cleanup functions of js/state.ts and            *)
(* js/audio.ts are called for it in any order, also when there is nothing  *)
(* to clean, while the clock moves and callbacks fire.                     *)
(***************************************************************************)
MaxCleanupCalls == 3      \* direct calls in one cleanup run
MaxCleanupAdvances == 2   \* times the clock advances in one cleanup run

CleanupAttrs == {Join(<<10, 20>>), Join(<<5, 5, 5, 5>>)}

\* a scheduler interval and a bit, and past the fade cleanup
CleanupSteps == {60, 250}

CleanupInit ==
  \E attr \in CleanupAttrs :
    StartFrom(LoopWorld(attr, 40, <<>>, CreateAudioContext), IdleApp(TRUE),
              1, 0, [op |-> "init", c |-> NoCircle])

\* fadeAndCleanupLiveAudio(ctx, circle), called directly
FadeAndCleanupLiveAudioCalled(c) ==
  /\ NoneDue
  /\ Commit(FadeAndCleanupLiveAudio(World, c))
  /\ Call("fadeAndCleanupLiveAudio", c, MaxCleanupCalls)
  /\ UNCHANGED <<probe, now, app, nextCircle, advances>>

\* clearLoopTimeout(circle), called directly
ClearLoopTimeoutCalled(c) ==
  /\ NoneDue
  /\ Commit(ClearLoopTimeout(World, c))
  /\ Call("clearLoopTimeout", c, MaxCleanupCalls)
  /\ UNCHANGED <<probe, now, app, nextCircle, advances>>

\* stopAndClearActiveOscillators(circle), called directly
StopAndClearActiveOscillatorsCalled(c) ==
  /\ NoneDue
  /\ Commit(StopAndClearActiveOscillators(World, c))
  /\ Call("stopAndClearActiveOscillators", c, MaxCleanupCalls)
  /\ UNCHANGED <<probe, now, app, nextCircle, advances>>

NextCleanup ==
  \/ \E c \in Circles : LoopCircleAudioCalled(c, MaxCleanupCalls)
  \/ \E c \in Circles : inputs < MaxCleanupCalls /\ CreateLiveAudioCalled(c)
  \/ \E c \in Circles : FadeAndCleanupLiveAudioCalled(c)
  \/ \E c \in Circles : ClearLoopTimeoutCalled(c)
  \/ \E c \in Circles : StopAndClearActiveOscillatorsCalled(c)
  \/ \E c \in Circles : inputs < MaxCleanupCalls /\ DeleteStateCalled(c)
  \/ FireTick
  \/ FireFade
  \/ FireNote
  \/ FireTail
  \/ \E step \in CleanupSteps : Advance(step, MaxCleanupAdvances)

SpecCleanup == CleanupInit /\ [][NextCleanup]_vars

(***************************************************************************)
(* The page as init() makes it when it is given no audio context: it calls *)
(* createAudioContext, which starts the compensation watcher, and the      *)
(* watcher runs beside the handlers and the other callbacks.               *)
(***************************************************************************)
MaxWatchAdvances == 2     \* times the clock advances in one such run

\* a key held for a moment, the rest of a watcher interval, and past every
\* pending cleanup
WatchSteps == {50, 150, 750}

WatchInit ==
  StartFrom(StartCompensationWatcher(EmptyWorld), IdleApp(TRUE), 0, 0,
            [op |-> "init", c |-> NoCircle])

FireWatch ==
  \E t \in timers :
    /\ IsNextTimer(t) /\ t.kind = "watch"
    /\ Commit(WatcherCallback(Taken(t), t))
    /\ Ran("watch", NoCircle)
    /\ UNCHANGED <<probe, now, app, nextCircle, advances>>

NextWatch ==
  \/ \E x \in PointerXs, y \in PointerYs : OnPointerDown(x, y)
  \/ OnPointerUp
  \/ OnPointerCancel
  \/ OnKeyDown
  \/ OnKeyUp
  \/ OnClearClick
  \/ FireTick
  \/ FireFade
  \/ FireNote
  \/ FireTail
  \/ FireExit
  \/ FireWatch
  \/ \E step \in WatchSteps : Advance(step, MaxWatchAdvances)

SpecWatch == WatchInit /\ [][NextWatch]_vars

(***************************************************************************)
(* The loop scheduler: what is scheduled, and how far                      *)
(***************************************************************************)
\* the scheduler tick that is queued for circle c and will still run
PendingTick(c) ==
  {t \in timers : t.kind = "tick" /\ t.c = c /\ stateMap[c].has
                  /\ t.id = stateMap[c].loopTimeout}

\* rotation i of circle c covers [RotStart, RotEnd)
RotStart(c, i) == rotations[c][i].start
RotEnd(c, i) == rotations[c][i].start + loops[rotations[c][i].loop].rotationPeriod

\* C1 (as the specification states it): while circle c is being scheduled
\* and its next tick is not overdue, scheduledUntil is at or after the
\* current time of the audio clock.
C1_ScheduledAhead ==
  \A c \in Circles :
    \A t \in PendingTick(c) :
      t.due >= now => stateMap[c].scheduledUntil >= now

\* C2 (as the specification states it): every rotation after the first
\* starts exactly where the rotation scheduled before it ends.
C2_Contiguous ==
  \A c \in Circles :
    \A i \in 1..(Len(rotations[c]) - 1) : RotStart(c, i + 1) = RotEnd(c, i)

\* C3: the intervals [start, start + rotationPeriod) of any two rotations
\* scheduled for one circle are disjoint, so no occurrence of an on segment
\* is rendered twice.
C3_RotationsDisjoint ==
  \A c \in Circles :
    \A i, j \in 1..Len(rotations[c]) :
      i < j => (RotEnd(c, i) <= RotStart(c, j) \/ RotEnd(c, j) <= RotStart(c, i))

\* a late tick has restarted the schedule of circle 1 and gone on to schedule
\* further rotations
C3_Witness ==
  /\ Len(rotations[1]) >= 4
  /\ \E i \in 1..(Len(rotations[1]) - 1) :
       /\ RotStart(1, i + 1) > RotEnd(1, i)
       /\ rotations[1][i + 1].at > rotations[1][i].at
  /\ \E i \in 1..(Len(rotations[1]) - 1) : RotStart(1, i + 1) = RotEnd(1, i)


(***************************************************************************)
(* Clearing and tearing down                                               *)
(***************************************************************************)
\* the audio callbacks still queued that close over circle c: its scheduler
\* tick, its fade cleanups and the two timers of each note
PendingTimers(c) ==
  {t \in timers : t.c = c /\ t.kind \in {"tick", "fade", "note", "tail"}}

\* C4 (as the specification states it): once onClearClick or destroy() has
\* processed a circle, no rotation is scheduled for it any more.
C4_NoRotationAfterClear ==
  [][\A c \in Circles : dom[c].cleared => rotations'[c] = rotations[c]]_vars

\* C5 (as the specification states it): when onClearClick or destroy()
\* returns, no circle has a pending scheduler tick or a registered active
\* oscillator.
C5_ClearHaltsAll ==
  lastOp.op \in {"clear", "destroy"} =>
    \A c \in Circles :
      PendingTick(c) = {} /\ stateMap[c].activeOscillators = <<>>

\* C6 (as the specification states it): when onClearClick returns, a circle
\* it has processed has no active oscillator and no pending timer of any
\* kind, and clearing again changes nothing.
C6_TeardownLeavesNothing ==
  lastOp.op = "clear" =>
    \A c \in Circles :
      dom[c].cleared =>
        stateMap[c].activeOscillators = <<>> /\ PendingTimers(c) = {}

(***************************************************************************)
(* Live preview bundles                                                    *)
(***************************************************************************)
\* the bundles created for circle c whose nodes have not been stopped
Unstopped(c) ==
  {b \in 1..Len(bundles) : bundles[b].c = c /\ ~bundles[b].stopped}

\* C7 (as the specification states it): a circle has at most one live
\* bundle whose nodes are running.
C7_OneLiveBundle == \A c \in Circles : Cardinality(Unstopped(c)) <= 1

\* C8 (as the specification states it): a bundle that has been faded is
\* stopped only later than LIVE_AUDIO_FADE after the fade began, and until
\* then it stays in its circle's state with its cleanup callback queued.
C8_FadeThenCleanup ==
  \A b \in 1..Len(bundles) :
    bundles[b].fadeAt # Null =>
      IF bundles[b].stopped
      THEN bundles[b].stoppedAt > bundles[b].fadeAt + LIVE_AUDIO_FADE
      ELSE /\ stateMap[bundles[b].c].liveAudioNodes = b
           /\ \E t \in timers : t.kind = "fade" /\ t.arg = b


(***************************************************************************)
(* Isolation                                                               *)
(***************************************************************************)
\* what the engine holds for circle c: its state entry, its queued
\* callbacks, the rotations scheduled for it and its bundles
RuntimeOf(c) ==
  [entry |-> stateMap[c],
   timers |-> {t \in timers : t.c = c},
   rotations |-> rotations[c],
   bundles |-> {[b |-> b, rec |-> bundles[b]] :
                  b \in {k \in 1..Len(bundles) : bundles[k].c = c}}]

\* C9: a handler or callback that runs for circle A (pointerdown, keydown,
\* keyup, finalize, abort, a scheduler tick, a note dispatch, a cleanup)
\* leaves what the engine holds for every other circle B unchanged.
C9_Isolation ==
  [][\A A, B \in Circles :
       (lastOp'.c = A /\ B # A) => RuntimeOf(B)' = RuntimeOf(B)]_vars

\* a scheduler tick of circle 1 has just run while circle 2 is being
\* recorded with a live bundle playing
C9_Witness ==
  /\ lastOp = [op |-> "tick", c |-> 1]
  /\ Len(rotations[1]) >= 2
  /\ stateMap[2].has /\ stateMap[2].liveAudioNodes # NoNodes


(***************************************************************************)
(* Determinism                                                             *)
(***************************************************************************)
HasLoop(c) == \E l \in 1..Len(loops) : loops[l].c = c
LoopOf(c) == CHOOSE l \in 1..Len(loops) : loops[l].c = c

\* the notes loopCircleAudio scheduled in its first call of
\* scheduleOneRotation for circle c
InFirstRotation(c, n) ==
  n.loop = LoopOf(c) /\ n.at = rotations[c][1].at

FirstNotes(c) ==
  LET idx == {i \in 1..Len(notes) : InFirstRotation(c, notes[i])}
      nth(k) == CHOOSE i \in idx : Cardinality({j \in idx : j < i}) = k - 1
  IN [k \in 1..Cardinality(idx) |-> notes[nth(k)]]

\* (frequency, offset from the start of the rotation, duration) of each of
\* them, in the order scheduled
FirstRotation(c) ==
  [k \in 1..Len(FirstNotes(c)) |->
     [freq |-> FirstNotes(c)[k].freq,
      offset |-> FirstNotes(c)[k].startNum
                 - rotations[c][1].start * FirstNotes(c)[k].den,
      duration |-> FirstNotes(c)[k].durNum,
      den |-> FirstNotes(c)[k].den]]

SameRecording(c1, c2) ==
  /\ HasLoop(c1) /\ HasLoop(c2)
  /\ dom[c1].seed = dom[c2].seed
  /\ stateMap[c1].segments = stateMap[c2].segments
  /\ loops[LoopOf(c1)].rotationPeriod = loops[LoopOf(c2)].rotationPeriod

\* C10 (as the specification states it): two circles created with the same
\* seed and finalized with the same segments and rotation period have the
\* same (frequency, offset, duration) sequence in their first rotation.
C10_SameSeedSameNotes ==
  \A c1, c2 \in Circles :
    SameRecording(c1, c2) => FirstRotation(c1) = FirstRotation(c2)

\* C10, amended: two circles created with the same seed at horizontal
\* positions that transpose alike, and finalized with the same segments and
\* rotation period, have the same (frequency, offset, duration) sequence in
\* their first rotation.
C10_SameSeedSameColumn ==
  \A c1, c2 \in Circles :
    (SameRecording(c1, c2)
     /\ TransposeSemis(stateMap[c1].pos.x) = TransposeSemis(stateMap[c2].pos.x))
      => FirstRotation(c1) = FirstRotation(c2)

\* both circles loop the same recording from the same seed, in the same
\* column but at different places, and their first rotations hold notes
C10_Witness ==
  /\ SameRecording(1, 2)
  /\ stateMap[1].pos.x = stateMap[2].pos.x
  /\ stateMap[1].pos # stateMap[2].pos
  /\ Len(FirstRotation(1)) >= 1
  /\ lastOp = [op |-> "finalize", c |-> 2]

(***************************************************************************)
(* js/utils.ts: chooseScale, analyzeSegments, buildDashArray                *)
(***************************************************************************)
\* C14: chooseScale returns the pentatonic scale when complexity <= 4,
\* otherwise the major scale when dashGapRatio > 1, otherwise the minor
\* scale; the call changes nothing but its result.
C14_ChooseScale ==
  /\ [](probe.fn = "chooseScale" =>
          probe.out =
            IF probe.analysis.complexity <= 4 THEN SCALES.pentatonic
            ELSE IF probe.analysis.dashGapRatio.num
                      > probe.analysis.dashGapRatio.den
                 THEN SCALES.major
                 ELSE SCALES.minor)
  /\ [][probe'.fn = "chooseScale" => UNCHANGED engineVars]_vars

\* chooseScale has answered minor for six segments with as many dashes as
\* gaps (a ratio of exactly 1)
C14_Witness ==
  /\ probe.fn = "chooseScale"
  /\ probe.analysis.complexity = 6
  /\ probe.analysis.dashGapRatio = [num |-> 3, den |-> 3]
  /\ probe.out = SCALES.minor

NumberOfType(segments, type) ==
  Cardinality({i \in 1..Len(segments) : segments[i].type = type})

\* C15: for every segment sequence analyzeSegments returns complexity = the
\* number of segments, dashGapRatio = count(dash) / max(1, count(gap)), and
\* avgDashLength and avgGapLength with a divisor that is not zero and a
\* value >= 0.
C15_AnalyzeSegments ==
  probe.fn = "analyzeSegments" =>
    /\ probe.out.complexity = Len(probe.segments)
    /\ probe.out.dashGapRatio =
         [num |-> NumberOfType(probe.segments, "dash"),
          den |-> Max(1, NumberOfType(probe.segments, "gap"))]
    /\ \A avg \in {probe.out.avgDashLength, probe.out.avgGapLength} :
         avg.den > 0 /\ avg.num >= 0

\* analyzeSegments has been called with dashes only and a total length of 0
C15_Witness ==
  /\ probe.fn = "analyzeSegments"
  /\ Len(probe.segments) = 2
  /\ NumberOfType(probe.segments, "gap") = 0
  /\ probe.totalLength = 0
  /\ probe.out.avgDashLength.num > 0

\* the segments buildDashArray writes lengths for: `all`
ProbeAll ==
  IF probe.liveDuration > 0 /\ probe.liveType # "none"
  THEN Append(probe.segments,
              [type |-> probe.liveType, duration |-> probe.liveDuration])
  ELSE probe.segments

\* the numbers read back from the string buildDashArray returned, in
\* hundredths, and those that are left when a leading 0 is dropped
ProbeRead == ParseDashAttr(probe.out)
DropMarker(read) == IF read # <<>> /\ read[1] = 0 THEN Tail(read) ELSE read
ProbeReadLengths == DropMarker(ProbeRead)

\* C16: for a total duration <= 0 or no segment buildDashArray returns
\* '0 <circumference>'; otherwise it writes one length of at least 1 unit for
\* every segment (the open live segment included when its duration is > 0),
\* in the order of the segments, and a 0 before them exactly when the first
\* segment is a gap.
C16_BuildDashArray ==
  probe.fn = "buildDashArray" =>
    IF probe.totalDurationMs <= 0 \/ ProbeAll = <<>>
    THEN /\ probe.out = EmptyPattern
         /\ ProbeRead = <<0, CIRCUMFERENCE_X100>>
    ELSE LET all == ProbeAll
             read == ProbeRead
             lengths == DropMarker(read)
         IN /\ (read[1] = 0) <=> (all[1].type = "gap")
            /\ Len(lengths) = Len(all)
            /\ \A i \in 1..Len(lengths) :
                 lengths[i] >= 100 /\ lengths[i] % 100 = 0
            /\ \A i, j \in 1..Len(all) :
                 (i <= Len(lengths) /\ j <= Len(lengths)
                  /\ all[i].duration <= all[j].duration)
                   => lengths[i] <= lengths[j]

\* buildDashArray has been called with a gap first, a segment of no
\* duration and an open live segment
C16_Witness ==
  /\ probe.fn = "buildDashArray"
  /\ probe.totalDurationMs > 0
  /\ Len(probe.segments) = 2
  /\ probe.segments[1].type = "gap"
  /\ probe.segments[2].duration = 0
  /\ Len(ProbeAll) = 3
  /\ ProbeReadLengths[2] = 100

\* C17: for a total duration > 0, the lengths read back from the string
\* buildDashArray returned (a leading 0 dropped) are one per segment, each
\* within 1 unit of duration * circumference / totalDuration.
C17_RoundTrip ==
  (probe.fn = "buildDashArray" /\ probe.totalDurationMs > 0 /\ ProbeAll # <<>>) =>
    LET all == ProbeAll
        lengths == ProbeReadLengths
    IN /\ Len(lengths) = Len(all)
       /\ \A i \in 1..Len(lengths) :
            LET diff == lengths[i] * probe.totalDurationMs
                        - all[i].duration * CIRCUMFERENCE_X100
            IN -100 * probe.totalDurationMs <= diff
               /\ diff <= 100 * probe.totalDurationMs

\* three segments, the first a gap, have been written and read back, one of
\* them longer than 99 units
C17_Witness ==
  /\ probe.fn = "buildDashArray"
  /\ probe.totalDurationMs > 0
  /\ Len(probe.segments) = 3
  /\ probe.segments[1].type = "gap"
  /\ \E i \in 1..Len(ProbeReadLengths) : ProbeReadLengths[i] >= 10000
  /\ \E i \in 1..Len(ProbeReadLengths) : ProbeReadLengths[i] = 100

(***************************************************************************)
(* loopCircleAudio on its own: degenerate input, failing notes, the work   *)
(* of one tick                                                             *)
(***************************************************************************)
\* the pattern of circle c is empty or has total length zero, or its
\* rotation period is zero
Degenerate(c) ==
  /\ stateMap[c].has
  /\ \/ ParseDashAttr(dom[c].dash) = <<>>
     \/ SumSeq(ParseDashAttr(dom[c].dash)) = 0
     \/ stateMap[c].holdDuration = 0

NotesOf(c) == {n \in 1..Len(notes) : notes[n].c = c}

\* C11 (as the specification states it): for a circle with an empty pattern,
\* a pattern of total length zero or a rotation period of zero,
\* loopCircleAudio schedules no note and leaves no scheduler tick queued,
\* and no callback runs for ever.
C11_DegenerateIsNoOp ==
  \A c \in Circles :
    (dom[c].inDOM /\ Degenerate(c)) =>
      NotesOf(c) = {} /\ PendingTick(c) = {} /\ ~hung

\* the on segments of loop l that scheduleOneRotation renders
OnSegments(l) ==
  {i \in 1..Len(loops[l].dashArray) :
     SegType(i) = "dash" /\ loops[l].dashArray[i] * loops[l].rotationPeriod > 0}

\* where segment i of loop l starts in a rotation that starts at start, as a
\* numerator over the loop's total length
SegmentStart(l, start, i) ==
  start * loops[l].totalLength
  + SumSeq(SubSeq(loops[l].dashArray, 1, i - 1)) * loops[l].rotationPeriod

\* playRichTone has been called for segment i of the k-th rotation of circle c
Attempted(c, k, i) ==
  \E n \in 1..Len(notes) :
    /\ notes[n].loop = rotations[c][k].loop
    /\ notes[n].at = rotations[c][k].at
    /\ notes[n].startNum = SegmentStart(rotations[c][k].loop, rotations[c][k].start, i)

\* C12: whatever calls of playRichTone fail, playRichTone is called for every
\* on segment of every rotation scheduled, scheduledUntil is the end of the
\* rotation scheduled last, and the next scheduler tick is queued.
C12_FailureContained ==
  \A c \in Circles :
    /\ \A k \in 1..Len(rotations[c]) :
         \A i \in OnSegments(rotations[c][k].loop) : Attempted(c, k, i)
    /\ (Len(rotations[c]) > 0
        /\ SumSeq(loops[rotations[c][Len(rotations[c])].loop].dashArray) > 0)
         => stateMap[c].scheduledUntil = RotEnd(c, Len(rotations[c]))
    /\ (HasLoop(c) /\ ~hung) => PendingTick(c) # {}

\* in the scheduler tick that has just run, playRichTone failed for one on
\* segment and rendered the next one
C12_Witness ==
  /\ lastOp = [op |-> "tick", c |-> 1]
  /\ \E n \in 1..(Len(notes) - 1) :
       /\ notes[n].outcome # "ok" /\ notes[n].at = now
       /\ notes[n + 1].outcome = "ok" /\ notes[n + 1].at = now
       /\ notes[n + 1].startNum > notes[n].startNum
       /\ notes[n + 1].startNum - notes[n].startNum
            < notes[n].den * loops[notes[n].loop].rotationPeriod

CeilDiv(a, b) == (a + b - 1) \div b

\* C13: a scheduler tick of a loop with rotationPeriod > 0 returns, every
\* rotation it schedules starts before now + lookahead, and it schedules at
\* most ceil(lookahead / rotationPeriod) + 1 rotations.
C13_TickBounded ==
  [][\A c \in Circles :
       (lastOp'.op = "tick" /\ lastOp'.c = c
        /\ loops[LoopOf(c)].rotationPeriod > 0) =>
         /\ ~hung'
         /\ Len(rotations'[c]) - Len(rotations[c])
              <= CeilDiv(LOOP_SCHEDULE_AHEAD, loops[LoopOf(c)].rotationPeriod) + 1
         /\ \A k \in (Len(rotations[c]) + 1)..Len(rotations'[c]) :
              rotations'[c][k].start < now + LOOP_SCHEDULE_AHEAD]_vars

\* the scheduler tick that has just run has scheduled five rotations or more
C13_Witness ==
  /\ lastOp = [op |-> "tick", c |-> 1]
  /\ Cardinality({k \in 1..Len(rotations[1]) : rotations[1][k].at = now}) >= 5

(***************************************************************************)
(* Silent patterns                                                         *)
(***************************************************************************)
\* the segments finalizeCurrentCircle would store now
FinalizedSegments ==
  Append(app.segments,
         [type |-> IF app.isSpaceDown THEN "dash" ELSE "gap",
          duration |-> now - app.lastSegmentStart])

\* C18 (as the specification states it): when a recording without any on
\* segment is finalized, no note is scheduled and the circle stays in the
\* document, spinning, with no removal queued.
C18_SilentPatternStays ==
  [][\A c \in Circles :
       (lastOp'.op = "finalize" /\ lastOp'.c = c /\ ~HasDash(FinalizedSegments)) =>
         /\ notes' = notes
         /\ dom'[c].inDOM /\ dom'[c].animation # Null
         /\ ~\E t \in timers' : t.kind = "exit" /\ t.c = c]_vars

(***************************************************************************)
(* The master output                                                       *)
(***************************************************************************)
\* C19: at most one compressor/shaper/gain chain is ever built for the audio
\* context, one has been built once any function has routed sound to the
\* master output, and every function routed to the chain that is registered.
C19_OneMasterChain ==
  /\ masterNodesMap.built <= 1
  /\ masterNodesMap.routed # {} =>
       masterNodesMap.built = 1 /\ masterNodesMap.nodes # NoChain
  /\ \A r \in masterNodesMap.routed : r.chain = masterNodesMap.nodes

\* playRichTone, createLiveAudio and playClickTone have all routed sound to
\* the master output, playClickTone last
C19_Witness ==
  /\ lastOp.op = "playClickTone"
  /\ {r.by : r \in masterNodesMap.routed}
       = {"playRichTone", "createLiveAudio", "playClickTone"}

(***************************************************************************)
(* Note events                                                             *)
(***************************************************************************)
\* the note events still queued for note n, and those dispatched
QueuedFor(n) == {t \in timers : t.kind = "note" /\ t.arg = n}
SentFor(n) ==
  {k \in 1..Len(notified[notes[n].c]) : notified[notes[n].c][k].note = n}

\* twice the time from t to the start of note n, as a numerator over the
\* note's denominator
TwiceUntilStart(n, t) == 2 * (notes[n].startNum - t * notes[n].den)

\* C20: every note playRichTone has rendered has exactly one note event,
\* queued or dispatched; it is queued for the note's start time (to the
\* millisecond) or, when that is at most 20 ms away, at once; it is never
\* dispatched more than 20 ms before the note starts, and it carries the
\* circle, the frequency, the duration and an intensity in [0, 1].
C20_OneEventPerNote ==
  \A n \in 1..Len(notes) :
    notes[n].outcome = "ok" =>
      /\ Cardinality(QueuedFor(n)) + Cardinality(SentFor(n)) = 1
      /\ \A t \in QueuedFor(n) :
           /\ -notes[n].den <= TwiceUntilStart(n, t.due)
           /\ TwiceUntilStart(n, t.due) <= 41 * notes[n].den
           /\ (t.due # notes[n].at) => TwiceUntilStart(n, t.due) <= notes[n].den
      /\ \A k \in SentFor(n) :
           LET ev == notified[notes[n].c][k]
           IN /\ TwiceUntilStart(n, ev.at) <= 41 * notes[n].den
              /\ ev.circleId = notes[n].c
              /\ ev.freq = notes[n].freq
              /\ ev.duration = [num |-> notes[n].useDurNum, den |-> notes[n].den]
              /\ ev.intensity \in 0..1000

\* one note event has been dispatched at once, before its note started, and
\* another has waited for its note's start
C20_Witness ==
  /\ \E n \in 1..Len(notes) : \E k \in SentFor(n) :
       /\ notified[notes[n].c][k].at = notes[n].at
       /\ TwiceUntilStart(n, notes[n].at) > 0
  /\ \E n \in 1..Len(notes) : \E k \in SentFor(n) :
       /\ notified[notes[n].c][k].at > notes[n].at + 20
       /\ TwiceUntilStart(n, notified[notes[n].c][k].at) <= notes[n].den
       /\ -notes[n].den <= TwiceUntilStart(n, notified[notes[n].c][k].at)

(***************************************************************************)
(* Teardown                                                                *)
(***************************************************************************)
\* C21: whenever a teardown path (deleteState, the Clear handler, destroy)
\* stops the active notes of a circle, the circle's scheduler tick has
\* already been cancelled: no tick of the circle is pending at that moment,
\* and none is pending, nor any note registered, when the path returns.
C21_TickCancelledFirst ==
  /\ \A r \in stops : ~r.tick
  /\ \A c \in Circles :
       (\/ (lastOp.op \in {"clear", "destroy"} /\ dom[c].cleared)
        \/ lastOp = [op |-> "deleteState", c |-> c]
        \/ lastOp = [op |-> "emotionalExit", c |-> c]) =>
         ~TickPending(World, c) /\ stateMap[c].activeOscillators = <<>>

\* deleteState has just stopped the notes of a circle whose loop was running
C21_Witness ==
  /\ lastOp.op = "deleteState"
  /\ \E r \in stops : r.c = lastOp.c /\ r.n > 0 /\ HasLoop(r.c)

(***************************************************************************)
(* One rotation                                                            *)
(***************************************************************************)
\* the playRichTone calls made for the k-th rotation of circle c: those of
\* its loop, made when it was scheduled, that start inside it
NotesOfRotation(c, k) ==
  LET rot == rotations[c][k]
      L == loops[rot.loop]
  IN {n \in 1..Len(notes) :
        /\ notes[n].loop = rot.loop /\ notes[n].at = rot.at
        /\ rot.start * L.totalLength <= notes[n].startNum
        /\ notes[n].startNum < (rot.start + L.rotationPeriod) * L.totalLength}

\* the on segments of positive duration of a pattern
PositiveOn(L) ==
  {i \in 1..Len(L.dashArray) : i % 2 = 1 /\ L.dashArray[i] * L.rotationPeriod > 0}

\* C22: in a rotation that starts at s, playRichTone is called exactly once
\* for every on segment of positive length and never for an off segment; the
\* call for segment i asks for the start s + (sum of the lengths before i) /
\* totalLength * rotationPeriod and the duration length_i / totalLength *
\* rotationPeriod; the calls are made in segment order, with strictly
\* increasing start times; and a call renders its note unless the audio
\* context fails it.
C22_OneNotePerOnSegment ==
  \A c \in Circles : \A k \in 1..Len(rotations[c]) :
    LET rot == rotations[c][k]
        L == loops[rot.loop]
        R == NotesOfRotation(c, k)
    IN /\ Cardinality(R) = Cardinality(PositiveOn(L))
       /\ \A i \in PositiveOn(L) : \E n \in R :
            /\ notes[n].startNum
                 = rot.start * L.totalLength
                   + SumSeq(SubSeq(L.dashArray, 1, i - 1)) * L.rotationPeriod
            /\ notes[n].durNum = L.dashArray[i] * L.rotationPeriod
            /\ notes[n].den = L.totalLength
       /\ \A n \in R : \A m \in R :
            n < m => notes[n].startNum < notes[m].startNum
       /\ \A n \in R :
            notes[n].outcome = "ok" \/ (n <= Len(faults) /\ faults[n] # "ok")

\* the scheduler tick that has just run scheduled a rotation with two on
\* segments, and both notes were rendered
C22_Witness ==
  /\ lastOp = [op |-> "tick", c |-> 1]
  /\ \E k \in 1..Len(rotations[1]) :
       /\ rotations[1][k].at = now
       /\ Cardinality(NotesOfRotation(1, k)) = 2
       /\ \A n \in NotesOfRotation(1, k) : notes[n].outcome = "ok"

(***************************************************************************)
(* No past instant                                                         *)
(***************************************************************************)
\* C23: every rotation handed to scheduleOneRotation, the initial one and
\* every one a scheduler tick schedules, starts at or after the audio
\* clock's time at the moment it is scheduled.
C23_NeverInThePast ==
  \A c \in Circles : \A k \in 1..Len(rotations[c]) :
    rotations[c][k].start >= rotations[c][k].at

\* the scheduler tick that has just run came after the end of what was
\* scheduled, and restarted ahead of the clock
C23_Witness ==
  /\ lastOp = [op |-> "tick", c |-> 1]
  /\ \E k \in 2..Len(rotations[1]) :
       /\ rotations[1][k].at = now
       /\ rotations[1][k - 1].at < now
       /\ RotEnd(1, k - 1) < now
       /\ rotations[1][k].start = now + START_OFFSET

(***************************************************************************)
(* The analysis of a finalized recording                                   *)
(***************************************************************************)
CountOfType(segs, type) ==
  Cardinality({i \in 1..Len(segs) : segs[i].type = type})

\* C24 (as the specification states it): the analysis loopCircleAudio
\* computes at finalize has the number of recorded segments as its
\* complexity and count(on) / max(1, count(off)) of the recorded segments as
\* its ratio, also when the recording begins with an off segment.
C24_AnalysisOfRecording ==
  \A c \in Circles :
    (stateMap[c].has /\ HasLoop(c)) =>
      LET analysis == loops[LoopOf(c)].analysis
          segs == stateMap[c].segments
      IN /\ analysis.complexity = Len(segs)
         /\ analysis.dashGapRatio
              = [num |-> CountOfType(segs, "dash"),
                 den |-> Max(1, CountOfType(segs, "gap"))]

(***************************************************************************)
(* The scale degree of a note                                              *)
(***************************************************************************)
\* C25: a note for an on segment longer than a quarter of the pattern uses
\* scale index 0 whatever the generator returns, and the index chosen for
\* any on segment lies in [0, scale.length - 1].
C25_TonicBias ==
  probe.fn = "noteIndex" =>
    /\ (4 * probe.len > probe.totalLength) => probe.out = 0
    /\ probe.out \in 0..(Len(SCALES[probe.scale]) - 1)

\* a segment longer than a quarter of the pattern whose base index and
\* jitter would have given another degree than the tonic
C25_Witness ==
  /\ probe.fn = "noteIndex"
  /\ 4 * probe.len > probe.totalLength
  /\ probe.baseIndex + probe.jitterOffset > 0
  /\ probe.out = 0

\* C26 (as the specification states it): for an on segment of at most a
\* quarter of the pattern the jitter added to the base index is -1, 0 or +1,
\* and each of the three is what some value of the generator gives.
C26_JitterEitherWay ==
  (probe.fn = "noteIndex" /\ 4 * probe.len <= probe.totalLength) =>
    /\ probe.jitterOffset \in {-1, 0, 1}
    /\ \A d \in {-1, 0, 1} : \E r \in ProbeRandoms : JitterOffset(r) = d

(***************************************************************************)
(* The active notes of a circle                                            *)
(***************************************************************************)
\* the records of note n in the active list of its circle
RegisteredFor(n) ==
  {k \in 1..Len(stateMap[notes[n].c].activeOscillators) :
     stateMap[notes[n].c].activeOscillators[k].note = n}

\* C27: when the handler or callback that called playRichTone returns, every
\* oscillator the call started is in the active list of the circle it was
\* called for: a rendered note has 1 + floor(complexity / 3) oscillators and
\* as many records, a call the audio context failed has none of either.
C27_VoicesRegistered ==
  [][\A n \in (Len(notes) + 1)..Len(notes') :
       /\ notes'[n].voices = 1 + (loops'[notes'[n].loop].analysis.complexity \div 3)
       /\ Cardinality(RegisteredFor(n)')
            = IF notes'[n].outcome = "ok" THEN notes'[n].voices ELSE 0]_vars

\* a note of two oscillators has been rendered, and both are registered
C27_Witness ==
  \E n \in 1..Len(notes) :
    /\ notes[n].outcome = "ok" /\ notes[n].voices = 2
    /\ Cardinality(RegisteredFor(n)) = 2

\* the stop time of the oscillators of note n has passed:
\* osc.stop(noteEnd + NOTE_STOP_SLACK_SEC + 0.02), noteEnd = startTime + useDuration
StopTimePassed(n) ==
  now * notes[n].den
    > notes[n].startNum + notes[n].useDurNum + (NOTE_STOP_SLACK + 20) * notes[n].den

\* C28 (as the specification states it): the active list of a circle holds
\* no record of an oscillator whose stop time has passed.
C28_OnlyLiveNotes ==
  \A c \in Circles :
    \A k \in 1..Len(stateMap[c].activeOscillators) :
      ~StopTimePassed(stateMap[c].activeOscillators[k].note)

(***************************************************************************)
(* The tail of a note                                                      *)
(***************************************************************************)
\* C29 (as the specification states it): the tail-cleanup callback of every
\* note is due at or after noteEnd + tailDuration, the end of the tail
\* gain's fade, with tailDuration = max(NOTE_RELEASE_SEC, NOTE_STOP_SLACK_SEC).
C29_TailAfterDecay ==
  \A t \in timers :
    t.kind = "tail" =>
      t.due * notes[t.arg].den
        >= notes[t.arg].startNum + notes[t.arg].useDurNum
           + Max(NOTE_RELEASE, NOTE_STOP_SLACK) * notes[t.arg].den

(***************************************************************************)
(* The state entry after teardown                                          *)
(***************************************************************************)
\* circle c has been through the Clear handler or destroy(), or
\* emotionalExit has been called for it (its removal is queued or done)
TornDown(c) ==
  \/ dom[c].cleared
  \/ \E t \in timers : t.kind = "exit" /\ t.c = c
  \/ (c <= nextCircle /\ ~dom[c].inDOM)

\* C30 (as the specification states it): a circle that has been cleared or
\* destroyed, or for which emotionalExit has run, has no entry in stateMap,
\* whatever callbacks have fired since.
C30_EntryRemoved ==
  \A c \in Circles : TornDown(c) => ~stateMap[c].has

(***************************************************************************)
(* Cleanup of what is already clean; the one tick of a loop                *)
(***************************************************************************)

\* the cleanup call of this step finds nothing to clean for its circle
CleanCall ==
  /\ inputs' = inputs + 1
  /\ lastOp'.c \in Circles
  /\ \/ /\ lastOp'.op = "fadeAndCleanupLiveAudio"
        /\ GetLiveAudioNodes(World, lastOp'.c) = NoNodes
     \/ /\ lastOp'.op = "clearLoopTimeout"
        /\ ~TickPending(World, lastOp'.c)
     \/ /\ lastOp'.op = "stopAndClearActiveOscillators"
        /\ GetActiveOscillators(World, lastOp'.c) = <<>>
     \/ /\ lastOp'.op = "deleteState"
        /\ ~stateMap[lastOp'.c].has

\* C31: fadeAndCleanupLiveAudio for a circle with no live bundle,
\* clearLoopTimeout for one with no pending tick, stopAndClearActiveOscillators
\* for one with an empty list and deleteState for one with no entry change
\* nothing: no timer is armed, no sound is stopped, no circle's entry, no
\* bundle and no element of the page is touched, and nothing fails.
C31_CleanIsNoOp ==
  [][CleanCall =>
       UNCHANGED <<stateMap, dom, timers, nextTimer, bundles, loops, rotations,
                   notes, notified, masterNodesMap, faults, hung, stops>>]_vars

\* fadeAndCleanupLiveAudio has just been called on a page where no live
\* bundle was ever created, and a loop runs beside it
C31_Witness ==
  /\ lastOp = [op |-> "fadeAndCleanupLiveAudio", c |-> 1]
  /\ bundles = <<>>
  /\ TickPending(World, 1)

TicksOf(c) == {t \in timers : t.kind = "tick" /\ t.c = c}

\* C32: every circle has at most one scheduler tick waiting; the loopTimeout
\* of its entry is the id of that tick, or null when none waits; a circle
\* with no entry has no tick.  This holds too when loopCircleAudio is called
\* again for a circle that already loops.
C32_OneTickPerEntity ==
  \A c \in Circles :
    /\ Cardinality(TicksOf(c)) <= 1
    /\ IF stateMap[c].has
       THEN \/ TicksOf(c) = {} /\ stateMap[c].loopTimeout = NoTimer
            \/ \E t \in TicksOf(c) : stateMap[c].loopTimeout = t.id
       ELSE TicksOf(c) = {}

\* loopCircleAudio was called twice for circle 1 and the tick of the second
\* call has run and armed its successor
C32_Witness ==
  /\ Len(loops) = 2
  /\ lastOp = [op |-> "tick", c |-> 1]
  /\ \E t \in TicksOf(1) : t.arg = 2 /\ stateMap[1].loopTimeout = t.id

(***************************************************************************)
(* What a fade cleanup stops; previews that never end                      *)
(***************************************************************************)

\* C33 (as the specification states it): the cleanup callback of a fade
\* stops only the bundle it was armed for: a bundle stopped by a cleanup
\* callback is the bundle of a fade timer that has just run.
C33_CleanupStopsItsOwn ==
  [][\A b \in 1..Len(bundles) :
       (lastOp'.op = "fadecleanup" /\ ~bundles[b].stopped /\ bundles'[b].stopped)
         => \E t \in timers \ timers' : t.kind = "fade" /\ t.arg = b]_vars

\* C37 (as the specification states it): a circle with a scheduler tick
\* waiting is an element of the canvas.
C37_TickOnlyOnCanvas ==
  \A c \in Circles : TicksOf(c) # {} => dom[c].inDOM

\* the on-toggle is held for the circle the bundle b was made for
Held(b) == app.currentCircle = bundles[b].c /\ app.isSpaceDown

\* C38 (as the specification states it): a live bundle whose on-toggle is
\* no longer held does not go on sounding for ever: until its nodes are
\* stopped it is the bundle in its circle's state and a fade cleanup for the
\* circle is waiting to stop it.
C38_PreviewEnds ==
  \A b \in 1..Len(bundles) :
    (~bundles[b].stopped /\ ~Held(b)) =>
      /\ stateMap[bundles[b].c].liveAudioNodes = b
      /\ \E t \in timers : t.kind = "fade" /\ t.c = bundles[b].c

\* C39 (as the specification states it): once onClearClick or destroy() has
\* processed a circle, no svg-playground:note event is dispatched for it.
C39_SilentAfterClear ==
  [][\A c \in Circles : dom[c].cleared => notified'[c] = notified[c]]_vars

(***************************************************************************)
(* How far ahead a loop is scheduled                                       *)
(***************************************************************************)

\* C36: while a circle loops, the scheduledUntil of its entry is never later
\* than now + lookahead + rotationPeriod + the 0.02 s start offset.
C36_BoundedAhead ==
  \A t \in timers :
    (t.kind = "tick" /\ stateMap[t.c].has) =>
      /\ stateMap[t.c].scheduledUntil # Null
      /\ stateMap[t.c].scheduledUntil
           <= now + LOOP_SCHEDULE_AHEAD + loops[t.arg].rotationPeriod + START_OFFSET

\* a tick has just run and has scheduled circle 1 past its horizon
C36_Witness ==
  /\ lastOp = [op |-> "tick", c |-> 1]
  /\ TicksOf(1) # {}
  /\ stateMap[1].scheduledUntil > now + LOOP_SCHEDULE_AHEAD

(***************************************************************************)
(* Recorded segments and the types loopCircleAudio gives them              *)
(***************************************************************************)

\* segs alternates between gap and dash and starts with a gap
Alternates(segs) ==
  \A i \in 1..Len(segs) : segs[i].type = (IF i % 2 = 1 THEN "gap" ELSE "dash")

\* entry i + 1 of the parsed attribute is the recorded segment i (entry 1 is
\* the `0` buildDashArray writes first), and gets its type
TypedAsRecorded(dashArray, segs) ==
  /\ Len(dashArray) = Len(segs) + 1
  /\ \A i \in 1..Len(segs) : SegType(i + 1) = segs[i].type

\* C35: the segments of the recording in progress alternate between gap and
\* dash and start with a gap, and so do the segments stored for a finalized
\* circle; the type loopCircleAudio gives an entry of the pattern by its
\* position is the type of the recorded segment the entry was written from.
C35_TypesByParity ==
  /\ Alternates(app.segments)
  /\ \A c \in Circles :
       (stateMap[c].has /\ stateMap[c].segments # <<>>) =>
         /\ Alternates(stateMap[c].segments)
         /\ TypedAsRecorded(ParseDashAttr(dom[c].dash), stateMap[c].segments)
         /\ HasLoop(c)
         /\ \A l \in 1..Len(loops) :
              loops[l].c = c =>
                TypedAsRecorded(loops[l].dashArray, stateMap[c].segments)

\* a recording with a gap, a dash and a gap has just been finalized
C35_Witness ==
  /\ lastOp.op = "finalize"
  /\ stateMap[lastOp.c].has
  /\ Len(stateMap[lastOp.c].segments) >= 3
  /\ HasLoop(lastOp.c)

(***************************************************************************)
(* The fade of a live bundle and the compensation watcher                  *)
(***************************************************************************)

\* C34 (as the specification states it): once fadeAndCleanupLiveAudio has
\* begun the fade of a bundle, the bundle's gain is headed for zero until its
\* nodes are stopped: nothing raises it again, the compensation watcher
\* included.
C34_FadeStays ==
  \A b \in 1..Len(bundles) :
    (bundles[b].fadeAt # Null /\ ~bundles[b].stopped) =>
      bundles[b].gainTarget = "zero"

====
